---- MODULE Spec2Model ----
(***************************************************************************)
(* Model of src/src/data/ingestion.py (DATA-RAG-SUS): the acquisition and  *)
(* processing orchestrator.  Five state machines share this module:        *)
(*   SpecDL    _download_dbc            (primary FTP, secondary S3 mirror) *)
(*   SpecSup   _run_r_download_only     (external helper supervisor)       *)
(*   SpecPipe  _process_dbc_python / _process_r_download_cache_python      *)
(*   SpecSingle _run_single             (direct pipeline, then fallback)   *)
(*   Spec      run_ingestion            (resolver, scheduler, breaker)     *)
(***************************************************************************)
EXTENDS Integers, Sequences, FiniteSets, TLC

VARIABLES
    \* ---- _download_dbc
    dl_pc,        \* "idle" | "ftp" | "s3" | "done"
    dl_attempt,   \* loop variable `attempt` (0 before the loop)
    dl_err,       \* local `err`
    dl_path,      \* content of the download path: "absent" | "empty" | "partial" | "data"
    dl_ftp,       \* history: events of the primary attempts made
    dl_s3,        \* history: events of the secondary attempts made
    dl_sleeps,    \* history: <<attempt, delay in tenths of a second>> of every time.sleep
    dl_res,       \* return value [ok, err] or NoRes
    \* ---- _run_r_download_only
    sup_pc,       \* "idle" | "start" | "loop" | "sleep" | "done"
    sup_clock,    \* time.time() - start, in seconds
    sup_last,     \* last_activity[0], in seconds since start
    sup_idle,     \* history: seconds since the child last wrote a line or grew the
                  \* cache, saturated at R_NO_PROGRESS_TIMEOUT + R_POLL_INTERVAL
    sup_child,    \* "none" | "running" | "exited" | "killed"
    sup_rc,       \* proc.returncode once the child exited by itself
    sup_cache,    \* size of the Raw Cache Artifact, -1 when the file is absent
    sup_wrote,    \* history: this invocation's child created or wrote the cache
    sup_streams,  \* proc.stdout and proc.stderr: "none", "open", or "closed" (both)
    sup_res,      \* return value [ok, err] or NoRes
    \* ---- _process_dbc_python / _process_r_download_cache_python
    pipe_pc,      \* "idle" | "entry" | "read" | "done" (batch loop completed) |
                  \* "failed" (returned earlier) | "raised" (left by an exception)
    pipe_entry,   \* "dbc" (direct download) | "cache" (Raw Cache Artifact)
    pipe_system,  \* "SIH-RD" | "SIA-PA"
    pipe_fields,  \* field names of the raw source, after _clean_name
    pipe_size,    \* CHUNK_SIZE of this run
    pipe_input,   \* history: the raw records read so far, in order
    pipe_fed,     \* history: the records of the batches handed to the filter, in order
    pipe_chunk,   \* local `chunk`: records read and not yet processed
    pipe_schema,  \* local `schema`: "none" | "set"
    pipe_writer,  \* local `writer`: "none" | "open" | "closed"
    pipe_opens,   \* history: number of pq.ParquetWriter(...) calls
    pipe_nwritten,\* local `n_written`
    pipe_dest,    \* Destination Artifact: [exists, rows]
    pipe_cache,   \* the Raw Cache Artifact exists
    pipe_res,     \* return value [ok, err] (the exception when pipe_pc = "raised")
    \* ---- _run_single
    rs_pc,        \* "idle" | "start" | "fallback" | "cache" | "done"
    rs_acq,       \* outcome of _process_dbc_python: [ok, err, cause, raised, dest]
    rs_launched,  \* history: _run_r_download_only was called
    rs_dest,      \* Destination Artifact: "absent" | "written" | "partial"
    rs_cache,     \* the Raw Cache Artifact exists
    rs_res,       \* return value [ok, err] or NoRes
    \* ---- get_targets / run_ingestion
    sch_pc,       \* "idle" | "start" | "resolved" | "loop" | "finished"
    sch_from_log,     \* run_ingestion's arguments
    sch_include_missing,
    sch_today,        \* date.sch_today() as <<year, month>>
    raw_store,        \* set of destination paths that exist under data/raw
    raw_dirs,     \* set of directories that exist under data/raw
    sch_log0,     \* history: the log as it was when the run started
    log_lines,    \* logs/erros.log, a sequence of lines
    sch_targets,  \* targets
    sch_i,        \* i, the position in targets
    sch_ok,       \* ok
    sch_fail,     \* fail
    sch_skipped,  \* skipped
    consecutive_timeouts,
    sch_cause,    \* history: class of the failure of the latest attempt ("" if none)
    sch_hist,     \* history: attempts, skips and cooldown sleeps in order
    \* ---- query (src/rag/executor.py) ----
    q_pc,         \* "idle", "start", "sql_ok", "view_ok", "base_ok", "view_created", "done", "raised"
    q_sql,        \* argument sql: [isstr, chars]
    q_view_name,  \* argument view_name: [isstr, chars]
    q_data_root,  \* argument data_root: "None" or a path
    q_default,    \* what <project>/data/processed is on disk
    q_text,       \* text
    q_stats,      \* history: number of times the file system was consulted
    q_execs,      \* history: statements handed to DuckDB, in order
    q_exc,        \* exception that left query, "" if none
    \* ---- the threads of one _run_r_download_only call ----
    th_pc,        \* main thread: "idle", "test", "sleep", "stat", "join", "status", "returned"
    th_clock,     \* time.time(), in ticks
    th_now,       \* local `now` of the polling loop
    th_last_activity,  \* last_activity[0]
    th_child,     \* "none", "running" or "exited"
    th_sent,      \* history: lines the child wrote, by stream
    th_pending,   \* lines in the pipe not yet read, by stream
    th_stamp,     \* by stream: what time.time() gave its reader at line 609 and is not
                  \* stored yet, -1 if nothing
    th_reader,    \* by stream: "reading" or "finished" (stream closed)
    th_stderr_chunks,  \* len(stderr_chunks)
    th_cache,     \* cache.exists()
    th_msg        \* history: len(stderr_chunks) when the message was built, -1 before

dlvars == <<dl_pc, dl_attempt, dl_err, dl_path, dl_ftp, dl_s3, dl_sleeps, dl_res>>

supvars == <<sup_pc, sup_clock, sup_last, sup_idle, sup_child, sup_rc, sup_cache,
             sup_wrote, sup_streams, sup_res>>

pipevars == <<pipe_pc, pipe_entry, pipe_system, pipe_fields, pipe_size, pipe_input, pipe_fed,
              pipe_chunk, pipe_schema, pipe_writer, pipe_opens, pipe_nwritten,
              pipe_dest, pipe_cache, pipe_res>>

rsvars == <<rs_pc, rs_acq, rs_launched, rs_dest, rs_cache, rs_res>>

schedvars == <<sch_pc, sch_from_log, sch_include_missing, sch_today, raw_store,
               raw_dirs, sch_log0, log_lines,
               sch_targets, sch_i, sch_ok, sch_fail, sch_skipped,
               consecutive_timeouts, sch_cause, sch_hist>>

qvars == <<q_pc, q_sql, q_view_name, q_data_root, q_default, q_text, q_stats, q_execs,
           q_exc>>

thvars == <<th_pc, th_clock, th_now, th_last_activity, th_child, th_sent, th_pending,
            th_stamp, th_reader, th_stderr_chunks, th_cache, th_msg>>

vars == <<dlvars, supvars, pipevars, rsvars, schedvars, qvars, thvars>>

\* What a step of one machine leaves alone
DlOnly == UNCHANGED <<supvars, pipevars, rsvars, schedvars, qvars, thvars>>

SupOnly == UNCHANGED <<dlvars, pipevars, rsvars, schedvars, qvars, thvars>>

PipeOnly == UNCHANGED <<dlvars, supvars, rsvars, schedvars, qvars, thvars>>

RsOnly == UNCHANGED <<dlvars, supvars, pipevars, schedvars, qvars, thvars>>

SchedOnly == UNCHANGED <<dlvars, supvars, pipevars, rsvars, qvars, thvars>>

QueryOnly == UNCHANGED <<dlvars, supvars, pipevars, rsvars, schedvars, thvars>>

ThreadsOnly == UNCHANGED <<dlvars, supvars, pipevars, rsvars, schedvars, qvars>>

NoRes == [ok |-> FALSE, err |-> [kind |-> "none", marks |-> {}]]

(***************************************************************************)
(* Error messages.  The code only ever inspects a message through          *)
(* case-insensitive substring tests, so a message is its kind plus the set *)
(* of tested substrings ("marks") its text contains.                       *)
(***************************************************************************)
Msg(kind, marks) == [kind |-> kind, marks |-> marks]

NoErr == Msg("", {})

\* "Arquivo inexistente no servidor (não está na listagem do diretório)."
M_NOT_LISTED == Msg("not_listed", {"inexistente", "arquivo inexistente"})

\* "Arquivo inexistente no servidor (404/550)."
M_404 == Msg("http_404", {"inexistente", "arquivo inexistente", "404", "550"})

\* "Download retornou arquivo vazio."
M_EMPTY == Msg("empty", {})

\* "Tempo excedido (timeout): servidor ou rede lenta; tente novamente mais tarde."
M_TIMEOUT == Msg("timeout", {"timeout", "tempo excedido"})

\* "Erro de memória: arquivo ou conjunto de dados muito grande."
M_MEMORY == Msg("memory", {})

\* Substrings an opaque text (str(e), kept verbatim) may happen to contain.
\* _classify_error never returns a verbatim text containing "timeout".
OpaqueMarks == {{}, {"550"}, {"404"}, {"cannot find the file"}}

\* str(e) or type(e).__name__: the verbatim text of an unclassified exception
M_OPAQUE(marks) == Msg("opaque", marks)


(***************************************************************************)
(* Source Acquisition: _download_dbc_ftp, _download_dbc_http, _download_dbc *)
(***************************************************************************)
MAX_ATTEMPTS == 3

\* random.uniform(0, 1), in tenths of a second
Jitters == {0, 5, 10}

Min(a, b) == IF a <= b THEN a ELSE b

Pow2(n) == IF n = 0 THEN 1 ELSE IF n = 1 THEN 2 ELSE IF n = 2 THEN 4 ELSE IF n = 3 THEN 8 ELSE 16

\* Mutant of BackoffDelay: the exponent is the number of failures so far.
BackoffDelayFromFailures(attempt, jitter) == Min(Pow2(attempt - 1) * 10 + jitter, 600)

\* delay = min(2 ** attempt + random.uniform(0, 1), 60.0), in tenths of a second
BackoffDelay(attempt, jitter) == Min(Pow2(attempt) * 10 + jitter, 600)

\* What one run of _download_dbc_ftp can meet.
FtpEvents ==
    {[k |-> x, marks |-> {}] :
        x \in {"ok", "not_listed", "empty", "timeout", "timeout_partial", "memory"}}
    \cup {[k |-> "error", marks |-> m] : m \in OpaqueMarks}

\* What one run of _download_dbc_http can meet.
S3Events ==
    {[k |-> x, marks |-> {}] :
        x \in {"ok", "empty", "http_404", "timeout", "memory", "write_error"}}
    \cup {[k |-> "error", marks |-> m] : m \in OpaqueMarks}

\* _classify_error(e) for the exception an event raises
ClassifyError(ev) ==
    CASE ev.k \in {"timeout", "timeout_partial"} -> M_TIMEOUT
      [] ev.k = "memory" -> M_MEMORY
      [] ev.k = "http_404" -> M_404
      [] OTHER -> M_OPAQUE(ev.marks)

\* Mutant of DownloadDbcFtp: a zero-byte file is reported with the message of
\* a file missing from the listing.
DownloadDbcFtpEmptyAsMissing(ev) ==
    CASE ev.k = "ok" -> [ok |-> TRUE, err |-> NoErr]
      [] ev.k \in {"not_listed", "empty"} -> [ok |-> FALSE, err |-> M_NOT_LISTED]
      [] OTHER -> [ok |-> FALSE, err |-> ClassifyError(ev)]

\* _download_dbc_ftp: (ok, message)
DownloadDbcFtp(ev) ==
    CASE ev.k = "ok" -> [ok |-> TRUE, err |-> NoErr]
      [] ev.k = "not_listed" -> [ok |-> FALSE, err |-> M_NOT_LISTED]
      [] ev.k = "empty" -> [ok |-> FALSE, err |-> M_EMPTY]
      [] OTHER -> [ok |-> FALSE, err |-> ClassifyError(ev)]

\* _download_dbc_ftp: what it leaves at `path` (path.open("wb") truncates)
FtpPath(ev, path) ==
    CASE ev.k = "ok" -> "data"
      [] ev.k = "empty" -> "empty"
      [] ev.k = "timeout_partial" -> "partial"
      [] OTHER -> path

\* Mutant of DownloadDbcHttp: the zero-byte check is missing.
DownloadDbcHttpNoSizeCheck(ev) ==
    CASE ev.k \in {"ok", "empty"} -> [ok |-> TRUE, err |-> NoErr]
      [] ev.k = "http_404" -> [ok |-> FALSE, err |-> M_404]
      [] OTHER -> [ok |-> FALSE, err |-> ClassifyError(ev)]

\* _download_dbc_http: (ok, message)
DownloadDbcHttp(ev) ==
    CASE ev.k = "ok" -> [ok |-> TRUE, err |-> NoErr]
      [] ev.k = "empty" -> [ok |-> FALSE, err |-> M_EMPTY]
      [] ev.k = "http_404" -> [ok |-> FALSE, err |-> M_404]
      [] OTHER -> [ok |-> FALSE, err |-> ClassifyError(ev)]

\* _download_dbc_http: what it leaves at `path` (write_bytes runs after r.read())
HttpPath(ev, path) ==
    CASE ev.k = "ok" -> "data"
      [] ev.k = "empty" -> "empty"
      [] ev.k = "write_error" -> "partial"
      [] OTHER -> path

\* Mutant of DlNotFound: only the numeric codes are looked for, so the
\* directory-listing message no longer stops the primary retries.
DlNotFoundCodesOnly(err) == err.marks \cap {"550", "404"} # {}

\* "inexistente" in err.lower() or "550" in err or "404" in err
DlNotFound(err) == err.marks \cap {"inexistente", "550", "404"} # {}

\* f"FTP: {err_ftp} | S3: {err}"
CompoundErr(err_ftp, err) == Msg("ftp_s3", err_ftp.marks \cup err.marks)

DlIdle ==
    /\ dl_pc = "idle"
    /\ dl_attempt = 0
    /\ dl_err = NoErr
    /\ dl_path = "absent"
    /\ dl_ftp = <<>>
    /\ dl_s3 = <<>>
    /\ dl_sleeps = <<>>
    /\ dl_res = NoRes

DlInit ==
    /\ dl_pc = "ftp"
    /\ dl_attempt = 0
    /\ dl_err = NoErr
    /\ dl_path = "absent"
    /\ dl_ftp = <<>>
    /\ dl_s3 = <<>>
    /\ dl_sleeps = <<>>
    /\ dl_res = NoRes

\* One iteration of `for attempt in range(1, MAX_ATTEMPTS + 1)`
DlFtpAttempt(ev, jitter) ==
    /\ DlOnly
    /\ dl_pc = "ftp"
    /\ dl_attempt < MAX_ATTEMPTS
    /\ LET attempt == dl_attempt + 1
           r == DownloadDbcFtp(ev)
       IN /\ dl_attempt' = attempt
          /\ dl_sleeps' = IF attempt > 1
                          THEN Append(dl_sleeps, <<attempt, BackoffDelay(attempt, jitter)>>)
                          ELSE dl_sleeps
          /\ dl_ftp' = Append(dl_ftp, ev)
          /\ dl_path' = FtpPath(ev, dl_path)
          /\ dl_err' = r.err
          /\ IF r.ok
             THEN /\ dl_pc' = "done"
                  /\ dl_res' = [ok |-> TRUE, err |-> NoErr]
             ELSE /\ dl_pc' = IF DlNotFound(r.err) \/ attempt = MAX_ATTEMPTS
                              THEN "s3" ELSE "ftp"
                  /\ dl_res' = dl_res
          /\ dl_s3' = dl_s3

\* The single secondary attempt and the return
DlS3Attempt(ev) ==
    /\ DlOnly
    /\ dl_pc = "s3"
    /\ LET r == DownloadDbcHttp(ev)
       IN /\ dl_s3' = Append(dl_s3, ev)
          /\ dl_path' = HttpPath(ev, dl_path)
          /\ dl_err' = r.err
          /\ dl_res' = IF r.ok THEN [ok |-> TRUE, err |-> NoErr]
                       ELSE [ok |-> FALSE, err |-> CompoundErr(dl_err, r.err)]
          /\ dl_pc' = "done"
          /\ UNCHANGED <<dl_attempt, dl_ftp, dl_sleeps>>

DlNext ==
    \/ \E ev \in FtpEvents, j \in Jitters : DlFtpAttempt(ev, j)
    \/ \E ev \in S3Events : DlS3Attempt(ev)

(***************************************************************************)
(* External Fallback Supervisor: _run_r_download_only                      *)
(***************************************************************************)
R_NO_PROGRESS_TIMEOUT == 600

R_HARD_TIMEOUT == 7200

R_POLL_INTERVAL == 15

\* Largest size the Raw Cache Artifact grows to in the model
MaxCacheSize == 2

\* "Script R não encontrado (scripts/r/fallback_download_only.R)."
M_NO_SCRIPT == Msg("r_no_script", {})

\* "Rscript não encontrado (instale R e coloque no PATH)."
M_NO_RSCRIPT == Msg("r_no_rscript", {})

\* "R download-only interrompido: sem atividade por 10 min (nenhuma saída nem
\* progresso de download)."
M_STALLED == Msg("r_stalled", {})

\* "R download-only excedeu tempo máximo de 2 h."
M_HARD == Msg("r_hard_timeout", {})

\* "R download-only concluiu sem gerar cache: <name>"
M_NO_CACHE == Msg("r_no_cache", {})

\* Substrings the first non-informational stderr line of the helper may hold
StderrMarks == {{}, {"timeout"}, {"404"}}

\* _r_stderr_to_log_message: "R concluiu com status <rc>[; <stderr line>]"
RStderrToLogMessage(marks) == Msg("r_status", marks)

SupIdle ==
    /\ sup_pc = "idle"
    /\ sup_clock = 0
    /\ sup_last = 0
    /\ sup_idle = 0
    /\ sup_child = "none"
    /\ sup_rc = 0
    /\ sup_cache = -1
    /\ sup_wrote = FALSE
    /\ sup_streams = "none"
    /\ sup_res = NoRes

\* Entry of _run_r_download_only; a cache left by an earlier attempt may exist.
SupInit ==
    /\ sup_pc = "start"
    /\ sup_clock = 0
    /\ sup_last = 0
    /\ sup_idle = 0
    /\ sup_child = "none"
    /\ sup_rc = 0
    /\ sup_cache \in {-1, 0, 1}
    /\ sup_wrote = FALSE
    /\ sup_streams = "none"
    /\ sup_res = NoRes

\* script.is_file(), subprocess.Popen, last_activity = [time.time()],
\* the two reader threads, start = time.time()
SupLaunch(how) ==
    /\ SupOnly
    /\ sup_pc = "start"
    /\ CASE how = "no_script" ->
              /\ sup_pc' = "done"
              /\ sup_res' = [ok |-> FALSE, err |-> M_NO_SCRIPT]
              /\ UNCHANGED <<sup_child, sup_streams>>
         [] how = "no_rscript" ->
              /\ sup_pc' = "done"
              /\ sup_res' = [ok |-> FALSE, err |-> M_NO_RSCRIPT]
              /\ UNCHANGED <<sup_child, sup_streams>>
         [] how = "popen_error" ->
              /\ sup_pc' = "done"
              /\ sup_res' = [ok |-> FALSE, err |-> M_OPAQUE({})]
              /\ UNCHANGED <<sup_child, sup_streams>>
         [] OTHER ->
              /\ sup_pc' = "loop"
              /\ sup_child' = "running"
              /\ sup_streams' = "open"
              /\ UNCHANGED sup_res
    /\ UNCHANGED <<sup_clock, sup_last, sup_idle, sup_rc, sup_cache, sup_wrote>>

\* read_stream: a reader thread reads one line the child wrote
SupReadLine ==
    /\ SupOnly
    /\ sup_pc \in {"loop", "sleep"}
    /\ sup_child = "running"
    /\ sup_streams = "open"
    /\ sup_last' = sup_clock
    /\ sup_idle' = 0
    /\ UNCHANGED <<sup_pc, sup_clock, sup_child, sup_rc, sup_cache, sup_wrote,
                   sup_streams, sup_res>>

\* The child creates the cache file or appends to it
SupCacheGrows ==
    /\ SupOnly
    /\ sup_pc \in {"loop", "sleep"}
    /\ sup_child = "running"
    /\ sup_cache < MaxCacheSize
    /\ sup_cache' = sup_cache + 1
    /\ sup_wrote' = TRUE
    /\ sup_idle' = IF sup_cache' > 0 THEN 0 ELSE sup_idle
    /\ UNCHANGED <<sup_pc, sup_clock, sup_last, sup_child, sup_rc, sup_streams, sup_res>>

\* The child exits by itself
SupChildExits(rc) ==
    /\ SupOnly
    /\ sup_pc \in {"loop", "sleep"}
    /\ sup_child = "running"
    /\ sup_child' = "exited"
    /\ sup_rc' = rc
    /\ UNCHANGED <<sup_pc, sup_clock, sup_last, sup_idle, sup_cache, sup_wrote,
                   sup_streams, sup_res>>

\* Mutant of HardTimedOut: the total time is measured from the last activity.
HardTimedOutSinceActivity(now, last) == now - last > R_HARD_TIMEOUT

\* now - start > R_HARD_TIMEOUT   (start is time 0 of the clock)
HardTimedOut(now, last) == now - 0 > R_HARD_TIMEOUT

\* now - last_activity[0] > R_NO_PROGRESS_TIMEOUT
NoProgress(now, last) == now - last > R_NO_PROGRESS_TIMEOUT

\* if cache.exists(): st = cache.stat(); last_activity[0] = now
RefreshOnCache(now, last, cache) == IF cache >= 0 THEN now ELSE last

\* Mutant of ExitResult: the cache is not looked at after a clean exit.
ExitResultIgnoresCache(rc, cache, marks) ==
    IF rc # 0 THEN [ok |-> FALSE, err |-> RStderrToLogMessage(marks)]
    ELSE [ok |-> TRUE, err |-> NoErr]

\* The code after the loop: proc.returncode, then cache.exists()
ExitResult(rc, cache, marks) ==
    IF rc # 0 THEN [ok |-> FALSE, err |-> RStderrToLogMessage(marks)]
    ELSE IF cache < 0 THEN [ok |-> FALSE, err |-> M_NO_CACHE]
    ELSE [ok |-> TRUE, err |-> NoErr]

\* What the caller finds of the two streams when the call returns after a
\* kill. Each reader thread closes its stream when it meets the end of the
\* stream, and the call does not wait for the readers after proc.wait(), so
\* `ended` (both readers were through by then) is decided by the race.
StreamsAtReturn(ended) == IF ended THEN "closed" ELSE "open"

\* `while proc.poll() is None:` and, once the child is gone, the code after
\* the loop: join the readers, then decide on the return code and the cache.
\* This machine takes the exit path with both readers through (the child's
\* exit ended both streams and the readers met the end within the joins);
\* the race of the two joins against the readers is modelled statement by
\* statement in the thread-level machine further down.
SupLoopTest(marks) ==
    /\ SupOnly
    /\ sup_pc = "loop"
    /\ IF sup_child = "running"
       THEN /\ sup_pc' = "sleep"
            /\ UNCHANGED <<sup_res, sup_streams>>
       ELSE /\ sup_pc' = "done"
            /\ sup_streams' = "closed"
            /\ sup_res' = ExitResult(sup_rc, sup_cache, marks)
    /\ UNCHANGED <<sup_clock, sup_last, sup_idle, sup_child, sup_rc, sup_cache, sup_wrote>>

\* Body of the loop: time.sleep(R_POLL_INTERVAL), the cache check and the
\* two ceilings (proc.kill(); proc.wait(); return).
SupPoll(ended) ==
    /\ SupOnly
    /\ sup_pc = "sleep"
    /\ LET now == sup_clock + R_POLL_INTERVAL
           last == RefreshOnCache(now, sup_last, sup_cache)
       IN /\ sup_clock' = now
          /\ sup_last' = last
          /\ sup_idle' = IF sup_child = "running"
                         THEN Min(sup_idle + R_POLL_INTERVAL,
                                  R_NO_PROGRESS_TIMEOUT + R_POLL_INTERVAL)
                         ELSE sup_idle
          /\ IF NoProgress(now, last)
             THEN /\ sup_child' = IF sup_child = "running" THEN "killed" ELSE sup_child
                  /\ sup_streams' = StreamsAtReturn(ended)
                  /\ sup_res' = [ok |-> FALSE, err |-> M_STALLED]
                  /\ sup_pc' = "done"
             ELSE IF HardTimedOut(now, last)
             THEN /\ sup_child' = IF sup_child = "running" THEN "killed" ELSE sup_child
                  /\ sup_streams' = StreamsAtReturn(ended)
                  /\ sup_res' = [ok |-> FALSE, err |-> M_HARD]
                  /\ sup_pc' = "done"
             ELSE /\ sup_pc' = "loop"
                  /\ UNCHANGED <<sup_child, sup_streams, sup_res>>
    /\ UNCHANGED <<sup_rc, sup_cache, sup_wrote>>

\* elapsed_min > 0 and elapsed_min > last_printed_min: a new minute began
MinutePrinted(now) == now > 0 /\ now % 60 = 0

\* The print of the elapsed minutes raises (standard output is a closed
\* pipe): `except Exception as e: return False, str(e)`. Nothing is done
\* about the child or the streams.
SupPollRaises ==
    /\ SupOnly
    /\ sup_pc = "sleep"
    /\ MinutePrinted(sup_clock + R_POLL_INTERVAL)
    /\ sup_clock' = sup_clock + R_POLL_INTERVAL
    /\ sup_res' = [ok |-> FALSE, err |-> M_OPAQUE({})]
    /\ sup_pc' = "failed"
    /\ UNCHANGED <<sup_last, sup_idle, sup_child, sup_rc, sup_cache, sup_wrote, sup_streams>>

SupNext ==
    \/ \E how \in {"no_script", "no_rscript", "popen_error", "ok"} : SupLaunch(how)
    \/ SupReadLine
    \/ SupCacheGrows
    \/ \E rc \in {0, 1} : SupChildExits(rc)
    \/ \E marks \in StderrMarks : SupLoopTest(marks)
    \/ \E ended \in BOOLEAN : SupPoll(ended)
    \/ SupPollRaises

(***************************************************************************)
(* Decode-Filter-Transform-Write Pipeline                                  *)
(***************************************************************************)
\* Largest number of raw records of one source in the model
MaxRecords == 3

\* Largest CHUNK_SIZE in the model (the code's value is 80_000)
MaxChunk == 2

NULL == "None"

\* Primary-diagnosis values of the model's records
CidValues == {"E109", "J45"}

\* Procedure-code values of the model's records, by system
ProcValues(system) ==
    IF system = "SIH-RD" THEN {"0415010012", "0301010072"}
    ELSE {"0302050019", "701020300", "0301010072"}

\* dict(record): the two fields the filters read
Records(system) == [cid : CidValues, proc : ProcValues(system)]

\* CID_REGEX matched against the upper-cased, stripped value
CidMatch(v) == v \in {"E109"}

\* proc.astype(str).str.zfill(10)
Zfill10(v) == IF v = "701020300" THEN "0701020300" ELSE v

\* proc.str[:2]
PaGrupo(v) ==
    CASE Zfill10(v) \in {"0302050019", "0301010072"} -> "03"
      [] Zfill10(v) = "0701020300" -> "07"
      [] Zfill10(v) = "0415010012" -> "04"
      [] OTHER -> "00"

\* proc.str[2:4]
PaSubgru(v) ==
    CASE Zfill10(v) = "0302050019" -> "02"
      [] Zfill10(v) \in {"0301010072", "0701020300"} -> "01"
      [] Zfill10(v) = "0415010012" -> "15"
      [] OTHER -> "00"

\* One row of _filter_sih, for a batch with the columns `fields`
FilterSihRow(r, fields) ==
    /\ "diag_princ" \in fields
    /\ \/ CidMatch(r.cid)
       \/ "proc_rea" \in fields /\ r.proc = "0415010012"

\* One row of _filter_sia, for a batch with the columns `fields`
FilterSiaRow(r, fields) ==
    /\ "pa_proc_id" \in fields
    /\ \/ /\ PaGrupo(r.proc) = "03"
          /\ PaSubgru(r.proc) = "02"
          /\ "pa_cidpri" \in fields
          /\ CidMatch(r.cid)
       \/ /\ PaGrupo(r.proc) = "07"
          /\ PaSubgru(r.proc) \in {"01", "02"}

\* filter_fn = _filter_sih if system == "SIH-RD" else _filter_sia
FilterRow(system, r, fields) ==
    IF system = "SIH-RD" THEN FilterSihRow(r, fields) ELSE FilterSiaRow(r, fields)

\* filter_fn(df): the surviving rows of a batch, in order
FilterFn(system, df, fields) ==
    SelectSeq(df, LAMBDA r : FilterRow(system, r, fields))

\* _system_to_label
SystemToLabel(system) == IF system = "SIH-RD" THEN "SIH" ELSE "SIA"

\* meta_fn(df, uf, year, month): one enriched row
MetaRow(system, r, fields) ==
    [cid |-> r.cid, proc |-> r.proc, sistema |-> SystemToLabel(system),
     main_icd |-> IF (IF system = "SIH-RD" THEN "diag_princ" ELSE "pa_cidpri") \in fields
                  THEN r.cid ELSE NULL]

\* meta_fn applied to a filtered batch
MetaFn(system, df, fields) == [i \in 1..Len(df) |-> MetaRow(system, df[i], fields)]

\* Columns the raw source may have, by system
FieldSets(system) ==
    IF system = "SIH-RD" THEN SUBSET {"diag_princ", "proc_rea"}
    ELSE SUBSET {"pa_proc_id", "pa_cidpri"}

Absent == [exists |-> FALSE, rows |-> <<>>]

\* "Descompressão DBC: <e>"
M_DECOMPRESS(marks) == Msg("decompress", marks)

\* "Arquivo DBF não gerado"
M_NO_DBF == Msg("no_dbf", {})

\* "Nenhum registro passou no filtro"
M_NO_MATCH == Msg("no_match", {})

\* "Parquet não foi gravado"
M_NOT_WRITTEN == Msg("not_written", {})

\* "Cache de download não encontrado: <cache>"
M_CACHE_MISSING == Msg("cache_missing", {})

\* "Processamento Python do cache R: <e>"
M_CACHE_PROC(marks) == Msg("cache_proc", marks)

\* "Nenhum registro passou no filtro (cache R)."
M_NO_MATCH_CACHE == Msg("no_match_cache", {})

\* "Parquet final não foi gravado após processamento do cache R."
M_NOT_WRITTEN_CACHE == Msg("not_written_cache", {})

\* Messages with which _download_dbc can fail
DownloadFailures ==
    {CompoundErr(DownloadDbcFtp(f).err, DownloadDbcHttp(h).err) :
        f \in {e \in FtpEvents : e.k # "ok"}, h \in {e \in S3Events : e.k # "ok"}}

\* Exceptions met while reading, filtering or writing a batch
BatchErrors == {[k |-> x, marks |-> {}] : x \in {"memory", "error"}}

PipeIdle ==
    /\ pipe_pc = "idle"
    /\ pipe_entry = "dbc"
    /\ pipe_system = "SIH-RD"
    /\ pipe_fields = {}
    /\ pipe_size = 1
    /\ pipe_input = <<>>
    /\ pipe_fed = <<>>
    /\ pipe_chunk = <<>>
    /\ pipe_schema = "none"
    /\ pipe_writer = "none"
    /\ pipe_opens = 0
    /\ pipe_nwritten = 0
    /\ pipe_dest = Absent
    /\ pipe_cache = FALSE
    /\ pipe_res = NoRes

\* Entry of either pipeline function.  The scheduler only hands over targets
\* whose Destination Artifact is absent.
PipeInit ==
    /\ pipe_pc = "entry"
    /\ pipe_entry \in {"dbc", "cache"}
    /\ pipe_system \in {"SIH-RD", "SIA-PA"}
    /\ pipe_fields \in FieldSets(pipe_system)
    /\ pipe_size \in 1..MaxChunk
    /\ pipe_input = <<>>
    /\ pipe_fed = <<>>
    /\ pipe_chunk = <<>>
    /\ pipe_schema = "none"
    /\ pipe_writer = "none"
    /\ pipe_opens = 0
    /\ pipe_nwritten = 0
    /\ pipe_dest = Absent
    /\ pipe_cache \in (IF pipe_entry = "cache" THEN BOOLEAN ELSE {FALSE})
    /\ pipe_res = NoRes

\* Mutant of BatchSkipped: the `if df.empty: continue` guard is missing.
BatchSkippedNever(df) == FALSE

\* if df.empty: continue
BatchSkipped(df) == df = <<>>

\* Mutant of WriteTable: every batch replaces the file's content.
WriteTableOverwrite(rows, table) == table

\* writer.write_table(table)
WriteTable(rows, table) == rows \o table

\* Mutant of SchemaUnset: a writer is opened for every batch that is written.
SchemaUnsetAlways(schema) == TRUE

\* if schema is None
SchemaUnset(schema) == schema = "none"

\* One batch: _records_to_clean_df, filter_fn, meta_fn, Table.from_pandas,
\* the writer opened at the first non-empty batch, write_table, n_written.
\* Gives the new <<schema, writer, opens, n_written, dest>>.
ProcessBatch(batch, schema, writer, opens, n, dest) ==
    LET df == FilterFn(pipe_system, batch, pipe_fields)
        table == MetaFn(pipe_system, df, pipe_fields)
    IN IF BatchSkipped(df)
       THEN <<schema, writer, opens, n, dest>>
       ELSE IF SchemaUnset(schema)
       THEN <<"set", "open", opens + 1, n + Len(df),
              [exists |-> TRUE, rows |-> WriteTable(<<>>, table)]>>
       ELSE <<schema, writer, opens, n + Len(df),
              [exists |-> TRUE, rows |-> WriteTable(dest.rows, table)]>>

\* Mutant of CloseWriter: the finally block leaves the writer as it is.
CloseWriterNever(writer) == writer

\* finally: if writer is not None: writer.close()
CloseWriter(writer) == IF writer = "open" THEN "closed" ELSE writer

\* _process_dbc_python up to the read loop: download, decompress, DBF check
PipeAcquire(how, err) ==
    /\ PipeOnly
    /\ pipe_pc = "entry"
    /\ pipe_entry = "dbc"
    /\ CASE how = "download_failed" ->
              /\ err \in DownloadFailures
              /\ pipe_pc' = "failed"
              /\ pipe_res' = [ok |-> FALSE, err |-> err]
         [] how = "decompress_failed" ->
              /\ err \in {M_DECOMPRESS(m) : m \in OpaqueMarks}
              /\ pipe_pc' = "failed"
              /\ pipe_res' = [ok |-> FALSE, err |-> err]
         [] how = "no_dbf" ->
              /\ err = M_NO_DBF
              /\ pipe_pc' = "failed"
              /\ pipe_res' = [ok |-> FALSE, err |-> err]
         [] OTHER ->
              /\ err = NoErr
              /\ pipe_pc' = "read"
              /\ UNCHANGED pipe_res
    /\ UNCHANGED <<pipe_entry, pipe_system, pipe_fields, pipe_size, pipe_input, pipe_fed,
                   pipe_chunk, pipe_schema, pipe_writer, pipe_opens, pipe_nwritten,
                   pipe_dest, pipe_cache>>

\* _process_r_download_cache_python up to the batch loop
PipeOpenCache ==
    /\ PipeOnly
    /\ pipe_pc = "entry"
    /\ pipe_entry = "cache"
    /\ IF pipe_cache
       THEN pipe_pc' = "read" /\ UNCHANGED pipe_res
       ELSE pipe_pc' = "failed" /\ pipe_res' = [ok |-> FALSE, err |-> M_CACHE_MISSING]
    /\ UNCHANGED <<pipe_entry, pipe_system, pipe_fields, pipe_size, pipe_input, pipe_fed,
                   pipe_chunk, pipe_schema, pipe_writer, pipe_opens, pipe_nwritten,
                   pipe_dest, pipe_cache>>

\* One iteration of `for record in DBF(...)`: append, and process the chunk
\* once it holds CHUNK_SIZE records
PipeReadRecord(r) ==
    /\ PipeOnly
    /\ pipe_pc = "read"
    /\ pipe_entry = "dbc"
    /\ Len(pipe_input) < MaxRecords
    /\ pipe_input' = Append(pipe_input, r)
    /\ LET chunk == Append(pipe_chunk, r)
       IN IF Len(chunk) >= pipe_size
          THEN LET p == ProcessBatch(chunk, pipe_schema, pipe_writer, pipe_opens,
                                     pipe_nwritten, pipe_dest)
               IN /\ pipe_chunk' = <<>>
                  /\ pipe_fed' = pipe_fed \o chunk
                  /\ pipe_schema' = p[1]
                  /\ pipe_writer' = p[2]
                  /\ pipe_opens' = p[3]
                  /\ pipe_nwritten' = p[4]
                  /\ pipe_dest' = p[5]
          ELSE /\ pipe_chunk' = chunk
               /\ UNCHANGED <<pipe_fed, pipe_schema, pipe_writer, pipe_opens, pipe_nwritten,
                              pipe_dest>>
    /\ UNCHANGED <<pipe_pc, pipe_entry, pipe_system, pipe_fields, pipe_size,
                   pipe_cache, pipe_res>>

\* Mutant of FlushDue: the records left in the buffer are never flushed.
FlushNever(chunk) == FALSE

\* if chunk:   (after the loop)
FlushDue(chunk) == chunk # <<>>

\* End of the DBF: the rest of the chunk, the finally block, the return
PipeFinishDbc ==
    /\ PipeOnly
    /\ pipe_pc = "read"
    /\ pipe_entry = "dbc"
    /\ LET p == IF FlushDue(pipe_chunk)
                THEN ProcessBatch(pipe_chunk, pipe_schema, pipe_writer, pipe_opens,
                                  pipe_nwritten, pipe_dest)
                ELSE <<pipe_schema, pipe_writer, pipe_opens, pipe_nwritten, pipe_dest>>
       IN /\ pipe_chunk' = <<>>
          /\ pipe_fed' = IF FlushDue(pipe_chunk) THEN pipe_fed \o pipe_chunk ELSE pipe_fed
          /\ pipe_schema' = p[1]
          /\ pipe_writer' = CloseWriter(p[2])
          /\ pipe_opens' = p[3]
          /\ pipe_nwritten' = p[4]
          /\ pipe_dest' = p[5]
          /\ pipe_res' = IF p[1] = "none" THEN [ok |-> FALSE, err |-> M_NO_MATCH]
                         ELSE IF ~p[5].exists THEN [ok |-> FALSE, err |-> M_NOT_WRITTEN]
                         ELSE [ok |-> TRUE, err |-> NoErr]
    /\ pipe_pc' = "done"
    /\ UNCHANGED <<pipe_entry, pipe_system, pipe_fields, pipe_size, pipe_input, pipe_cache>>

\* An exception inside the try block of _process_dbc_python: the finally
\* block closes the writer and the exception leaves the function
PipeRaiseDbc(e) ==
    /\ PipeOnly
    /\ pipe_pc = "read"
    /\ pipe_entry = "dbc"
    /\ pipe_writer' = CloseWriter(pipe_writer)
    /\ pipe_res' = [ok |-> FALSE, err |-> ClassifyError(e)]
    /\ pipe_pc' = "raised"
    /\ UNCHANGED <<pipe_entry, pipe_system, pipe_fields, pipe_size, pipe_input, pipe_fed,
                   pipe_chunk, pipe_schema, pipe_opens, pipe_nwritten, pipe_dest,
                   pipe_cache>>

\* One iteration of `for batch in pf.iter_batches(batch_size=CHUNK_SIZE)`
PipeCacheBatch(batch) ==
    /\ PipeOnly
    /\ pipe_pc = "read"
    /\ pipe_entry = "cache"
    /\ Len(pipe_input) + Len(batch) <= MaxRecords
    /\ pipe_input' = pipe_input \o batch
    /\ pipe_fed' = pipe_fed \o batch
    /\ LET p == ProcessBatch(batch, pipe_schema, pipe_writer, pipe_opens,
                             pipe_nwritten, pipe_dest)
       IN /\ pipe_schema' = p[1]
          /\ pipe_writer' = p[2]
          /\ pipe_opens' = p[3]
          /\ pipe_nwritten' = p[4]
          /\ pipe_dest' = p[5]
    /\ UNCHANGED <<pipe_pc, pipe_entry, pipe_system, pipe_fields, pipe_size,
                   pipe_chunk, pipe_cache, pipe_res>>

\* Mutant of NothingWritten: the cache pipeline has no no-match test.
NothingWrittenNever(schema, n) == FALSE

\* if schema is None or n_written == 0
NothingWritten(schema, n) == schema = "none" \/ n = 0

\* End of the cache file: the finally block (close, cache.unlink()), the return
PipeFinishCache(unlinked) ==
    /\ PipeOnly
    /\ pipe_pc = "read"
    /\ pipe_entry = "cache"
    /\ pipe_writer' = CloseWriter(pipe_writer)
    /\ pipe_cache' = IF unlinked THEN FALSE ELSE pipe_cache
    /\ pipe_res' = IF NothingWritten(pipe_schema, pipe_nwritten)
                   THEN [ok |-> FALSE, err |-> M_NO_MATCH_CACHE]
                   ELSE IF ~pipe_dest.exists THEN [ok |-> FALSE, err |-> M_NOT_WRITTEN_CACHE]
                   ELSE [ok |-> TRUE, err |-> NoErr]
    /\ pipe_pc' = "done"
    /\ UNCHANGED <<pipe_entry, pipe_system, pipe_fields, pipe_size, pipe_input, pipe_fed,
                   pipe_chunk, pipe_schema, pipe_opens, pipe_nwritten, pipe_dest>>

\* An exception inside the try block of _process_r_download_cache_python: it
\* is caught and returned, after the finally block
PipeRaiseCache(e, unlinked) ==
    /\ PipeOnly
    /\ pipe_pc = "read"
    /\ pipe_entry = "cache"
    /\ pipe_writer' = CloseWriter(pipe_writer)
    /\ pipe_cache' = IF unlinked THEN FALSE ELSE pipe_cache
    /\ pipe_res' = [ok |-> FALSE, err |-> M_CACHE_PROC(e.marks)]
    /\ pipe_pc' = "failed"
    /\ UNCHANGED <<pipe_entry, pipe_system, pipe_fields, pipe_size, pipe_input, pipe_fed,
                   pipe_chunk, pipe_schema, pipe_opens, pipe_nwritten, pipe_dest>>

\* Batches iter_batches can yield: 1 to CHUNK_SIZE rows
CacheBatches ==
    UNION {[1..n -> Records(pipe_system)] : n \in 1..pipe_size}

PipeNext ==
    \/ \E how \in {"download_failed", "decompress_failed", "no_dbf", "ok"} :
          \E err \in DownloadFailures \cup {M_DECOMPRESS(m) : m \in OpaqueMarks}
                     \cup {M_NO_DBF, NoErr} : PipeAcquire(how, err)
    \/ PipeOpenCache
    \/ \E r \in Records(pipe_system) : PipeReadRecord(r)
    \/ PipeFinishDbc
    \/ \E e \in BatchErrors : PipeRaiseDbc(e)
    \/ \E b \in CacheBatches : PipeCacheBatch(b)
    \/ \E u \in BOOLEAN : PipeFinishCache(u)
    \/ \E e \in BatchErrors, u \in BOOLEAN : PipeRaiseCache(e, u)

(***************************************************************************)
(* _run_single: direct pipeline, then the external fallback on not-found   *)
(***************************************************************************)
\* "Dependências: pip install datasus-dbc dbfread — <e>"
M_DEPS == Msg("deps", {})

\* Class (section 4.6 of the design) of a failed download, from what the two
\* endpoints met: not-found when an endpoint reported the object absent (not
\* in the listing, FTP reply 550, HTTP 404/410), else by the mirror's failure.
DlCause(f, h) ==
    IF \/ f.k = "not_listed"
       \/ f.k = "error" /\ "550" \in f.marks
       \/ h.k = "http_404"
    THEN "not-found"
    ELSE CASE h.k = "timeout" -> "timeout"
           [] h.k = "memory" -> "resource-exhaustion"
           [] h.k = "empty" -> "empty-result"
           [] OTHER -> "other"

\* Class of an exception that leaves _process_dbc_python
ExcCause(e) ==
    CASE e.k \in {"timeout", "timeout_partial"} -> "timeout"
      [] e.k = "memory" -> "resource-exhaustion"
      [] OTHER -> "other"

Acq(ok, err, cause, raised, dest) ==
    [ok |-> ok, err |-> err, cause |-> cause, raised |-> raised, dest |-> dest]

NoAcq == Acq(FALSE, NoErr, "", FALSE, "same")

\* Every way _process_dbc_python can end: its return value or exception, the
\* class of the failure, and what it did to the Destination Artifact.
AcqOutcomes ==
    {Acq(TRUE, NoErr, "", FALSE, "written")}
    \cup {Acq(FALSE, CompoundErr(DownloadDbcFtp(f).err, DownloadDbcHttp(h).err),
              DlCause(f, h), FALSE, "same") :
            f \in {e \in FtpEvents : e.k # "ok"}, h \in {e \in S3Events : e.k # "ok"}}
    \cup {Acq(FALSE, M_DECOMPRESS(m), "other", FALSE, "same") : m \in OpaqueMarks}
    \cup {Acq(FALSE, M_NO_DBF, "other", FALSE, "same"),
          Acq(FALSE, M_NO_MATCH, "no-match", FALSE, "same"),
          Acq(FALSE, M_DEPS, "other", TRUE, "same")}
    \cup {Acq(FALSE, ClassifyError(e), ExcCause(e), TRUE, d) :
            e \in BatchErrors, d \in {"same", "partial"}}

\* Every way _run_r_download_only can end, given whether a cache file existed
\* before: [ok, err, cache] with cache the file's existence afterwards.
ROutcomes(cacheBefore) ==
    {[ok |-> FALSE, err |-> m, cache |-> cacheBefore] :
        m \in {M_NO_SCRIPT, M_NO_RSCRIPT, M_OPAQUE({})}}
    \cup (IF cacheBefore THEN {}
          ELSE {[ok |-> FALSE, err |-> m, cache |-> FALSE] : m \in {M_STALLED, M_NO_CACHE}})
    \cup {[ok |-> FALSE, err |-> M_HARD, cache |-> c] : c \in {cacheBefore, TRUE}}
    \cup {[ok |-> FALSE, err |-> RStderrToLogMessage(m), cache |-> c] :
            m \in StderrMarks, c \in {cacheBefore, TRUE}}
    \cup {[ok |-> TRUE, err |-> NoErr, cache |-> TRUE]}

\* Every way _process_r_download_cache_python can end on an existing cache:
\* [ok, err, dest, cache]
CpOutcomes ==
    {[ok |-> TRUE, err |-> NoErr, dest |-> "written", cache |-> c] : c \in BOOLEAN}
    \cup {[ok |-> FALSE, err |-> M_NO_MATCH_CACHE, dest |-> "same", cache |-> c] : c \in BOOLEAN}
    \cup {[ok |-> FALSE, err |-> M_CACHE_PROC(e.marks), dest |-> d, cache |-> c] :
            e \in BatchErrors, d \in {"same", "partial"}, c \in BOOLEAN}

\* Mutant of IsFileNotFoundError: every failure message counts as not-found.
IsFileNotFoundErrorAlways(err) == TRUE

\* _is_file_not_found_error
IsFileNotFoundError(err) ==
    err.marks \cap {"404", "550", "arquivo inexistente", "file not found",
                    "cannot find the file"} # {}

DestAfter(dest, effect) == IF effect = "same" THEN dest ELSE effect

RsIdle ==
    /\ rs_pc = "idle"
    /\ rs_acq = NoAcq
    /\ rs_launched = FALSE
    /\ rs_dest = "absent"
    /\ rs_cache = FALSE
    /\ rs_res = NoRes

RsInit ==
    /\ rs_pc = "start"
    /\ rs_acq = NoAcq
    /\ rs_launched = FALSE
    /\ rs_dest = "absent"
    /\ rs_cache \in BOOLEAN
    /\ rs_res = NoRes

\* success, err = _process_dbc_python(...) and the branch on its result
RsProcess(acq) ==
    /\ RsOnly
    /\ rs_pc = "start"
    /\ rs_acq' = acq
    /\ rs_dest' = DestAfter(rs_dest, acq.dest)
    /\ IF acq.raised \/ acq.ok \/ ~IsFileNotFoundError(acq.err)
       THEN /\ rs_pc' = "done"
            /\ rs_res' = [ok |-> acq.ok, err |-> acq.err]
       ELSE /\ rs_pc' = "fallback"
            /\ UNCHANGED rs_res
    /\ UNCHANGED <<rs_launched, rs_cache>>

\* ok, err_r = _run_r_download_only(...)
RsFallback(r) ==
    /\ RsOnly
    /\ rs_pc = "fallback"
    /\ r \in ROutcomes(rs_cache)
    /\ rs_launched' = TRUE
    /\ rs_cache' = r.cache
    /\ IF r.ok
       THEN rs_pc' = "cache" /\ UNCHANGED rs_res
       ELSE rs_pc' = "done" /\ rs_res' = [ok |-> FALSE, err |-> r.err]
    /\ UNCHANGED <<rs_acq, rs_dest>>

\* return _process_r_download_cache_python(...)
RsCache(cp) ==
    /\ RsOnly
    /\ rs_pc = "cache"
    /\ rs_dest' = DestAfter(rs_dest, cp.dest)
    /\ rs_cache' = cp.cache
    /\ rs_res' = [ok |-> cp.ok, err |-> cp.err]
    /\ rs_pc' = "done"
    /\ UNCHANGED <<rs_acq, rs_launched>>

RsNext ==
    \/ \E acq \in AcqOutcomes : RsProcess(acq)
    \/ \E r \in ROutcomes(TRUE) \cup ROutcomes(FALSE) : RsFallback(r)
    \/ \E cp \in CpOutcomes : RsCache(cp)

(***************************************************************************)
(* Target Resolver and Failure Log: get_targets, _targets_missing,         *)
(* _targets_from_log, _count_failures_in_log                               *)
(***************************************************************************)
MAX_FAILURES_BEFORE_SKIP == 3

CIRCUIT_BREAKER_THRESHOLD == 3

CIRCUIT_BREAKER_COOLDOWN == 300

\* SYSTEMS, and the part of STATES, YEARS_DEFAULT and MONTHS the model covers.
\* Months 1 and 10 are the pair whose labels share a prefix ("... 1" / "... 10").
SYSTEMS == {"SIH-RD", "SIA-PA"}

STATES == {"AC"}

Years == {2021}

MONTHS == {1, 10}

\* A target is <<system, uf, year, month>>.
Grid == SYSTEMS \X STATES \X Years \X MONTHS

\* LOG_ERRO_PATTERN is compiled with IGNORECASE, so a line written as
\* "erro processamento: sia-pa AC 2021 1" yields the system "sia-pa".
AliasTarget == <<"sia-pa", "AC", 2021, 1>>

\* The pattern accepts any two letters as region: a target of a region
\* outside the part of the grid the model covers.
OtherUfTarget == <<"SIH-RD", "AL", 2021, 1>>

Targets == Grid \cup {AliasTarget, OtherUfTarget}

\* dir_path of _dest_path: ano=<year>/uf=<uf>/sistema=<sistema>
DestDir(path) == <<path[3], path[2], path[1]>>

\* _dest_path(_system_to_label(system), uf, year, month)
DestPath(t) == <<SystemToLabel(t[1]), t[2], t[3], t[4]>>

\* A log line: what wrote it and the target its text names (<<>> when none).
\* Kinds "ERRO PROCESSAMENTO" and "FALHA DEFINITIVA DOWNLOAD" are written by
\* the external tool; the other kinds by run_ingestion and _run_single.
NoTarget == <<>>

Line(kind, tgt) == [kind |-> kind, tgt |-> tgt]

PatternKinds == {"ERRO PROCESSAMENTO", "FALHA DEFINITIVA DOWNLOAD"}

\* LOG_ERRO_PATTERN matches the line
PatternMatches(l) == l.kind \in PatternKinds

\* _targets_from_log
TargetsFromLog(lines) ==
    {lines[k].tgt : k \in {j \in 1..Len(lines) : PatternMatches(lines[j])}}

\* label in line, for a line "ERRO ingestão <system> <uf> <year> <MM>: <err>"
LabelIn(t, l) == l.tgt = t

\* label_alt in line: label_alt ends with the unpadded month, so it is found
\* in a line whose two-digit month starts with that digit.
LabelAltIn(t, l) ==
    /\ t[4] < 10
    /\ l.tgt[1] = t[1] /\ l.tgt[2] = t[2] /\ l.tgt[3] = t[3]
    /\ l.tgt[4] \div 10 = t[4]

\* the test _count_failures_in_log applies to one line
CountsAsFailure(t, l) ==
    IF l.kind = "ERRO ingestao" /\ (LabelIn(t, l) \/ LabelAltIn(t, l))
    THEN TRUE
    ELSE PatternMatches(l) /\ l.tgt = t

\* _count_failures_in_log
CountFailuresInLog(lines, t) ==
    Cardinality({k \in 1..Len(lines) : CountsAsFailure(t, lines[k])})

\* Mutant of IsFuture: the current month counts as future.
IsFutureOrCurrent(t, today) ==
    t[3] > today[1] \/ (t[3] = today[1] /\ t[4] >= today[2])

\* today is <<year, month>>
IsFuture(t, today) ==
    t[3] > today[1] \/ (t[3] = today[1] /\ t[4] > today[2])

\* _targets_missing (skip_future = True)
TargetsMissing(store, today) ==
    {t \in Grid : ~IsFuture(t, today) /\ DestPath(t) \notin store}

\* Python's order of the strings that occur as system and as uf
SystemOrder == <<"SIA-PA", "SIH-RD", "sia-pa">>

UfOrder == <<"AC", "AL">>

Rank(order, s) == CHOOSE k \in 1..Len(order) : order[k] = s

\* Mutant of KeyLess: the tuples are compared as they are, system first.
KeyLessSystemFirst(a, b) ==
    \/ Rank(SystemOrder, a[1]) < Rank(SystemOrder, b[1])
    \/ a[1] = b[1] /\ Rank(UfOrder, a[2]) < Rank(UfOrder, b[2])
    \/ a[1] = b[1] /\ a[2] = b[2] /\ a[3] < b[3]
    \/ a[1] = b[1] /\ a[2] = b[2] /\ a[3] = b[3] /\ a[4] < b[4]

\* key=lambda x: (x[1], x[2], x[3], x[0])
KeyLess(a, b) ==
    \/ Rank(UfOrder, a[2]) < Rank(UfOrder, b[2])
    \/ a[2] = b[2] /\ a[3] < b[3]
    \/ a[2] = b[2] /\ a[3] = b[3] /\ a[4] < b[4]
    \/ a[2] = b[2] /\ a[3] = b[3] /\ a[4] = b[4]
         /\ Rank(SystemOrder, a[1]) < Rank(SystemOrder, b[1])

RECURSIVE SortTargets(_)
SortTargets(S) ==
    IF S = {} THEN <<>>
    ELSE LET m == CHOOSE x \in S : \A y \in S \ {x} : KeyLess(x, y)
         IN  <<m>> \o SortTargets(S \ {m})

\* Directories get_targets makes sure exist: _dest_path runs mkdir(parents=
\* True, exist_ok=True) for every grid target _targets_missing looks at and
\* for every candidate of the final loop.
GetTargetsDirs(from_log, include_missing, store, lines, today) ==
    {DestDir(DestPath(t)) :
        t \in (IF include_missing THEN {g \in Grid : ~IsFuture(g, today)} ELSE {})
               \cup (IF from_log THEN TargetsFromLog(lines) ELSE {})}

\* Mutant of GetTargets: the union is returned without the final check of the
\* destination store.
GetTargetsNoRecheck(from_log, include_missing, store, lines, today) ==
    SortTargets((IF include_missing THEN TargetsMissing(store, today) ELSE {})
                \cup (IF from_log THEN TargetsFromLog(lines) ELSE {}))

\* get_targets
GetTargets(from_log, include_missing, store, lines, today) ==
    LET targets == (IF include_missing THEN TargetsMissing(store, today) ELSE {})
                   \cup (IF from_log THEN TargetsFromLog(lines) ELSE {})
    IN  SortTargets({t \in targets : DestPath(t) \notin store})

(***************************************************************************)
(* Scheduler: run_ingestion                                                *)
(***************************************************************************)
\* Class (section 4.6 of the design) of a failure of the helper or of the
\* cache pipeline, from its message; a helper that ends with an error status
\* and a stderr line speaking of a timeout is taken as a timeout.
FallbackCause(err) ==
    CASE err = M_STALLED -> "stalled"
      [] err = M_HARD -> "exceeded-duration"
      [] err = M_NO_MATCH_CACHE -> "no-match"
      [] err.kind = "r_status" /\ "timeout" \in err.marks -> "timeout"
      [] OTHER -> "other"

\* Every way _run_single can end: [ok, err, cause, fallback, dest] with cause
\* the class of the failure, fallback the fact that the helper was launched
\* (and its log line written) and dest the effect on the Destination Artifact.
RunSingleResults ==
    {[ok |-> a.ok, err |-> a.err, cause |-> a.cause, fallback |-> FALSE, dest |-> a.dest] :
        a \in {x \in AcqOutcomes : x.raised \/ x.ok \/ ~IsFileNotFoundError(x.err)}}
    \cup {[ok |-> FALSE, err |-> r.err, cause |-> FallbackCause(r.err), fallback |-> TRUE,
           dest |-> a.dest] :
            a \in {x \in AcqOutcomes : ~x.raised /\ ~x.ok /\ IsFileNotFoundError(x.err)},
            r \in {y \in ROutcomes(TRUE) \cup ROutcomes(FALSE) : ~y.ok}}
    \cup {[ok |-> cp.ok, err |-> cp.err,
           cause |-> IF cp.ok THEN "" ELSE FallbackCause(cp.err),
           fallback |-> TRUE, dest |-> cp.dest] :
            cp \in CpOutcomes}

\* "timeout" in err.lower() or "tempo excedido" in err.lower()
IsTimeoutText(err) == err.marks \cap {"timeout", "tempo excedido"} # {}

\* What run_ingestion can observe of an attempt
Effects ==
    {[ok |-> r.ok, timeout |-> IsTimeoutText(r.err), cause |-> r.cause,
      fallback |-> r.fallback, dest |-> r.dest] : r \in RunSingleResults}

\* Mutant of BreakerTripped: the breaker trips one timeout late.
BreakerTrippedLate(ct) == ct > CIRCUIT_BREAKER_THRESHOLD

\* if consecutive_timeouts >= CIRCUIT_BREAKER_THRESHOLD
BreakerTripped(ct) == ct >= CIRCUIT_BREAKER_THRESHOLD

\* Mutant of SkipDue: a target is skipped only from the fourth logged failure.
SkipDueLate(n_failures) == n_failures > MAX_FAILURES_BEFORE_SKIP

\* if n_failures >= MAX_FAILURES_BEFORE_SKIP
SkipDue(n_failures) == n_failures >= MAX_FAILURES_BEFORE_SKIP

\* Mutant of FallbackLine: the launch of the helper is logged as a failure.
FallbackLineAsError(t) == Line("ERRO ingestao", t)

\* "Arquivo não encontrado (FTP/S3); fallback R download-only: <label>"
FallbackLine(t) == Line("fallback", t)

\* History entry: an attempt's outcome, a skip, or a cooldown sleep
Entry(kind, tgt, timeout, secs) ==
    [kind |-> kind, tgt |-> tgt, timeout |-> timeout, secs |-> secs]

RECURSIVE Repeat(_, _)
Repeat(l, n) == IF n = 0 THEN <<>> ELSE <<l>> \o Repeat(l, n - 1)

\* Log contents found when a run starts: nothing, or one or three lines about
\* one target, written by the external tool or by an earlier run (the success
\* line is that of an artifact removed since).
SeedLines ==
    {Line("ERRO PROCESSAMENTO", <<"SIA-PA", "AC", 2021, 1>>),
     Line("FALHA DEFINITIVA DOWNLOAD", AliasTarget),
     Line("ERRO PROCESSAMENTO", OtherUfTarget),
     Line("ERRO ingestao", <<"SIA-PA", "AC", 2021, 10>>),
     Line("SUCESSO ingestao", <<"SIA-PA", "AC", 2021, 10>>)}

SeedLogs ==
    {<<>>} \cup {Repeat(l, n) : l \in SeedLines, n \in {1, MAX_FAILURES_BEFORE_SKIP}}

\* the dates date.today() takes in the model
Todays == {<<2021, 1>>, <<2021, 10>>}

SihStore == {DestPath(t) : t \in {g \in Grid : g[1] = "SIH-RD"}}

\* Stores, logs and dates a run starts from: an empty store late in the year
\* (the whole grid is missing), or a store holding the SIH artifacts.
Configs ==
    [from_log : BOOLEAN, include_missing : {TRUE}, store : {{}},
     lines : {<<>>, Repeat(Line("ERRO PROCESSAMENTO", <<"SIA-PA", "AC", 2021, 1>>),
                           MAX_FAILURES_BEFORE_SKIP)},
     today : {<<2021, 10>>}]
    \cup [from_log : BOOLEAN, include_missing : BOOLEAN, store : {SihStore},
          lines : SeedLogs, today : Todays]

SchedIdle ==
    /\ sch_pc = "idle"
    /\ sch_from_log = FALSE /\ sch_include_missing = FALSE
    /\ sch_today = <<2021, 1>>
    /\ raw_store = {}
    /\ raw_dirs = {}
    /\ sch_log0 = <<>>
    /\ log_lines = <<>>
    /\ sch_targets = <<>> /\ sch_i = 0
    /\ sch_ok = 0 /\ sch_fail = 0 /\ sch_skipped = 0
    /\ consecutive_timeouts = 0
    /\ sch_cause = ""
    /\ sch_hist = <<>>

\* Entry of run_ingestion; the directory of every stored artifact exists.
SchedInit ==
    /\ sch_pc = "start"
    /\ \E c \in Configs :
         /\ sch_from_log = c.from_log /\ sch_include_missing = c.include_missing
         /\ sch_today = c.today
         /\ raw_store = c.store
         /\ raw_dirs = {DestDir(path) : path \in c.store}
         /\ sch_log0 = c.lines
         /\ log_lines = c.lines
    /\ sch_targets = <<>> /\ sch_i = 0
    /\ sch_ok = 0 /\ sch_fail = 0 /\ sch_skipped = 0
    /\ consecutive_timeouts = 0
    /\ sch_cause = ""
    /\ sch_hist = <<>>

\* targets = get_targets(from_log=..., include_missing=..., years=...)
SchedResolve ==
    /\ SchedOnly
    /\ sch_pc = "start"
    /\ sch_targets' = GetTargets(sch_from_log, sch_include_missing, raw_store,
                                 log_lines, sch_today)
    /\ raw_dirs' = raw_dirs \cup GetTargetsDirs(sch_from_log, sch_include_missing,
                                                raw_store, log_lines, sch_today)
    /\ sch_pc' = "resolved"
    /\ UNCHANGED <<sch_from_log, sch_include_missing, sch_today, raw_store, sch_log0,
                   log_lines, sch_i, sch_ok, sch_fail, sch_skipped,
                   consecutive_timeouts, sch_cause, sch_hist>>

\* The run ends at once when there is no target; otherwise the connection
\* test is logged and the counters are set.
SchedStart(conn_ok) ==
    /\ SchedOnly
    /\ sch_pc = "resolved"
    /\ IF sch_targets = <<>>
       THEN /\ log_lines' = Append(log_lines, Line("Execucao sem alvos", NoTarget))
            /\ sch_pc' = "finished"
            /\ sch_i' = 0
       ELSE /\ log_lines' = Append(log_lines,
                 Line(IF conn_ok THEN "CONEXAO OK" ELSE "CONEXAO FALHA", NoTarget))
            /\ sch_pc' = "loop"
            /\ sch_i' = 1
    /\ sch_ok' = 0 /\ sch_fail' = 0 /\ sch_skipped' = 0
    /\ consecutive_timeouts' = 0
    /\ UNCHANGED <<sch_from_log, sch_include_missing, sch_today, raw_store, raw_dirs,
                   sch_log0, sch_targets, sch_cause, sch_hist>>

\* Mutant of Exhausted: the loop gives up before the last target.
ExhaustedEarly(i, targets) == i >= Len(targets)

\* for i, (system, uf, year, month) in enumerate(targets, start=1): no item left
Exhausted(i, targets) == i > Len(targets)

\* loop top with the breaker tripped: log, sleep, reset
SchedCooldown ==
    /\ SchedOnly
    /\ sch_pc = "loop" /\ ~Exhausted(sch_i, sch_targets)
    /\ BreakerTripped(consecutive_timeouts)
    /\ log_lines' = Append(log_lines, Line("Circuit breaker", NoTarget))
    /\ sch_hist' = Append(sch_hist,
                          Entry("cooldown", NoTarget, FALSE, CIRCUIT_BREAKER_COOLDOWN))
    /\ consecutive_timeouts' = 0
    /\ UNCHANGED <<sch_from_log, sch_include_missing, sch_today, raw_store, raw_dirs,
                   sch_log0, sch_pc, sch_targets, sch_i, sch_ok, sch_fail, sch_skipped,
                   sch_cause>>

\* n_failures >= MAX_FAILURES_BEFORE_SKIP: skipped += 1; log; continue
SchedSkip ==
    /\ SchedOnly
    /\ sch_pc = "loop" /\ ~Exhausted(sch_i, sch_targets)
    /\ ~BreakerTripped(consecutive_timeouts)
    /\ SkipDue(CountFailuresInLog(log_lines, sch_targets[sch_i]))
    /\ sch_skipped' = sch_skipped + 1
    /\ log_lines' = Append(log_lines, Line("IGNORADO", sch_targets[sch_i]))
    /\ sch_hist' = Append(sch_hist, Entry("skip", sch_targets[sch_i], FALSE, 0))
    /\ sch_i' = sch_i + 1
    /\ UNCHANGED <<sch_from_log, sch_include_missing, sch_today, raw_store, raw_dirs,
                   sch_log0, sch_pc, sch_targets, sch_ok, sch_fail,
                   consecutive_timeouts, sch_cause>>

\* Mutant of ConsecutiveAfterFailure: a failure of another kind lowers the
\* counter by one instead of resetting it.
ConsecutiveAfterFailureLowers(ct, timeout) == IF timeout THEN ct + 1 ELSE ct - 1

\* if "timeout" in err.lower() or "tempo excedido" in err.lower():
\*     consecutive_timeouts += 1
\* else: consecutive_timeouts = 0
ConsecutiveAfterFailure(ct, timeout) == IF timeout THEN ct + 1 ELSE 0

\* success, err = _run_single(...) and the bookkeeping of its outcome
SchedAttempt(eff) ==
    /\ SchedOnly
    /\ sch_pc = "loop" /\ ~Exhausted(sch_i, sch_targets)
    /\ ~BreakerTripped(consecutive_timeouts)
    /\ ~SkipDue(CountFailuresInLog(log_lines, sch_targets[sch_i]))
    /\ LET t == sch_targets[sch_i]
           store1 == IF eff.dest = "same" THEN raw_store ELSE raw_store \cup {DestPath(t)}
           lines1 == IF eff.fallback THEN Append(log_lines, FallbackLine(t))
                     ELSE log_lines
           timeout == IF eff.ok THEN FALSE ELSE eff.timeout
       IN  /\ raw_store' = store1
           /\ raw_dirs' = raw_dirs \cup {DestDir(DestPath(t))}
           /\ IF eff.ok /\ DestPath(t) \in store1
              THEN /\ sch_ok' = sch_ok + 1
                   /\ consecutive_timeouts' = 0
                   /\ sch_cause' = ""
                   /\ log_lines' = Append(lines1, Line("SUCESSO ingestao", t))
                   /\ sch_hist' = Append(sch_hist, Entry("ok", t, FALSE, 0))
                   /\ UNCHANGED sch_fail
              ELSE /\ sch_fail' = sch_fail + 1
                   /\ consecutive_timeouts' =
                        ConsecutiveAfterFailure(consecutive_timeouts, timeout)
                   /\ sch_cause' = IF eff.ok THEN "other" ELSE eff.cause
                   /\ log_lines' = Append(lines1, Line("ERRO ingestao", t))
                   /\ sch_hist' = Append(sch_hist, Entry("fail", t, timeout, 0))
                   /\ UNCHANGED sch_ok
    /\ sch_i' = sch_i + 1
    /\ UNCHANGED <<sch_from_log, sch_include_missing, sch_today, sch_log0, sch_pc,
                   sch_targets, sch_skipped>>

\* the list is exhausted: the summary line
SchedFinish ==
    /\ SchedOnly
    /\ sch_pc = "loop" /\ Exhausted(sch_i, sch_targets)
    /\ log_lines' = Append(log_lines, Line("Concluido", NoTarget))
    /\ sch_pc' = "finished"
    /\ UNCHANGED <<sch_from_log, sch_include_missing, sch_today, raw_store, raw_dirs,
                   sch_log0, sch_targets, sch_i, sch_ok, sch_fail, sch_skipped,
                   consecutive_timeouts, sch_cause, sch_hist>>

Next ==
    \/ SchedResolve
    \/ \E conn_ok \in BOOLEAN : SchedStart(conn_ok)
    \/ SchedCooldown
    \/ SchedSkip
    \/ \E eff \in Effects : SchedAttempt(eff)
    \/ SchedFinish

(***************************************************************************)
(* query (src/rag/executor.py): SQL over the processed layer               *)
(***************************************************************************)
\* Longest sql and longest view_name of the model, in characters
MaxSqlLen == 2

MaxNameLen == 2

\* A Python value passed as a string argument: a str (its characters) or not
Str(chars) == [isstr |-> TRUE, chars |-> chars]

NotStr == [isstr |-> FALSE, chars |-> <<>>]

\* Characters of the model's sql texts; str.strip() removes the first two
SqlChars == {" ", "\n", "S"}

Whitespace == {" ", "\n"}

SqlInputs ==
    {NotStr} \cup {Str(c) : c \in UNION {[1..n -> SqlChars] : n \in 0..MaxSqlLen}}

NameChars == {"a", "1", "\n"}

NameInputs ==
    {NotStr} \cup {Str(c) : c \in UNION {[1..n -> NameChars] : n \in 0..MaxNameLen}}

\* data_root: None, an existing directory, a path that does not exist, a
\* regular file, the empty string
DataRoots == {"None", "dir", "missing", "file", ""}

RECURSIVE LStrip(_)
LStrip(c) ==
    IF c # <<>> /\ Head(c) \in Whitespace THEN LStrip(Tail(c)) ELSE c

RECURSIVE RStrip(_)
RStrip(c) ==
    IF c # <<>> /\ c[Len(c)] \in Whitespace THEN RStrip(SubSeq(c, 1, Len(c) - 1)) ELSE c

\* Mutant of Strip: the text is taken as it is.
StripNothing(c) == c

\* sql.strip()
Strip(c) == RStrip(LStrip(c))

\* re.match(r"^[A-Za-z_][A-Za-z0-9_]*$", name): `$` also matches just before
\* a newline that ends the string
ValidateIdentifierMatches(c) ==
    LET body == IF c # <<>> /\ c[Len(c)] = "\n" THEN SubSeq(c, 1, Len(c) - 1) ELSE c
    IN  /\ body # <<>>
        /\ body[1] = "a"
        /\ \A k \in 1..Len(body) : body[k] \in {"a", "1"}

\* Path(data_root) if data_root is not None else _default_data_root();
\* Path("") is the current directory
BasePath(data_root) ==
    CASE data_root = "None" -> "default"
      [] data_root = "" -> "."
      [] OTHER -> data_root

\* What a path is on disk: "dir", "file" or "absent"
FsKind(path, default) ==
    CASE path = "default" -> default
      [] path \in {"dir", "."} -> "dir"
      [] path = "file" -> "file"
      [] OTHER -> "absent"

\* Mutant of IsDir: any existing path will do.
IsDirOrFile(kind) == kind # "absent"

\* base.is_dir()
IsDir(kind) == kind = "dir"

QueryIdle ==
    /\ q_pc = "idle"
    /\ q_sql = NotStr
    /\ q_view_name = NotStr
    /\ q_data_root = "None"
    /\ q_default = "absent"
    /\ q_text = <<>>
    /\ q_stats = 0
    /\ q_execs = <<>>
    /\ q_exc = ""

\* A call of query
QueryInit ==
    /\ q_pc = "start"
    /\ q_sql \in SqlInputs
    /\ q_view_name \in NameInputs
    /\ q_data_root \in DataRoots
    /\ q_default \in {"dir", "absent"}
    /\ q_text = <<>>
    /\ q_stats = 0
    /\ q_execs = <<>>
    /\ q_exc = ""

\* text = _validate_sql(sql)
QValidateSql ==
    /\ QueryOnly
    /\ q_pc = "start"
    /\ IF ~q_sql.isstr
       THEN q_pc' = "raised" /\ q_exc' = "TypeError" /\ UNCHANGED q_text
       ELSE IF Strip(q_sql.chars) = <<>>
       THEN q_pc' = "raised" /\ q_exc' = "ValueError" /\ UNCHANGED q_text
       ELSE q_pc' = "sql_ok" /\ q_text' = Strip(q_sql.chars) /\ UNCHANGED q_exc
    /\ UNCHANGED <<q_sql, q_view_name, q_data_root, q_default, q_stats, q_execs>>

\* view = _validate_identifier(view_name)
QValidateIdentifier ==
    /\ QueryOnly
    /\ q_pc = "sql_ok"
    /\ IF ~q_view_name.isstr
       THEN q_pc' = "raised" /\ q_exc' = "TypeError"
       ELSE IF ~ValidateIdentifierMatches(q_view_name.chars)
       THEN q_pc' = "raised" /\ q_exc' = "ValueError"
       ELSE q_pc' = "view_ok" /\ UNCHANGED q_exc
    /\ UNCHANGED <<q_sql, q_view_name, q_data_root, q_default, q_text, q_stats, q_execs>>

\* base = ...; if not base.is_dir(): raise FileNotFoundError
QCheckBase ==
    /\ QueryOnly
    /\ q_pc = "view_ok"
    /\ q_stats' = q_stats + 1
    /\ IF IsDir(FsKind(BasePath(q_data_root), q_default))
       THEN q_pc' = "base_ok" /\ UNCHANGED q_exc
       ELSE q_pc' = "raised" /\ q_exc' = "FileNotFoundError"
    /\ UNCHANGED <<q_sql, q_view_name, q_data_root, q_default, q_text, q_execs>>

\* duckdb.connect and con.execute("CREATE OR REPLACE VIEW ..."), which DuckDB
\* may refuse (no file matches the glob)
QCreateView(ok) ==
    /\ QueryOnly
    /\ q_pc = "base_ok"
    /\ q_execs' = Append(q_execs, "create_view")
    /\ IF ok
       THEN q_pc' = "view_created" /\ UNCHANGED q_exc
       ELSE q_pc' = "raised" /\ q_exc' = "duckdb.Error"
    /\ UNCHANGED <<q_sql, q_view_name, q_data_root, q_default, q_text, q_stats>>

\* return con.execute(text).df(), which DuckDB may refuse (text is not SQL)
QExecute(ok) ==
    /\ QueryOnly
    /\ q_pc = "view_created"
    /\ q_execs' = Append(q_execs, "text")
    /\ IF ok
       THEN q_pc' = "done" /\ UNCHANGED q_exc
       ELSE q_pc' = "raised" /\ q_exc' = "duckdb.Error"
    /\ UNCHANGED <<q_sql, q_view_name, q_data_root, q_default, q_text, q_stats>>

QueryNext ==
    \/ QValidateSql
    \/ QValidateIdentifier
    \/ QCheckBase
    \/ \E ok \in BOOLEAN : QCreateView(ok)
    \/ \E ok \in BOOLEAN : QExecute(ok)

(***************************************************************************)
(* The threads of one _run_r_download_only call, statement by statement:   *)
(* the polling loop of the main thread and the two read_stream threads,    *)
(* which share last_activity[0] and stderr_chunks.  The two ceilings are   *)
(* the subject of the supervisor machine above and lie beyond this         *)
(* machine's horizon of MaxTicks clock readings.                           *)
(***************************************************************************)
\* Largest reading of the clock in the model
MaxTicks == 3

\* Largest number of lines the child writes to one stream in the model
MaxLines == 2

\* proc.stdout and proc.stderr
Streams == {"stdout", "stderr"}

ThreadsIdle ==
    /\ th_pc = "idle"
    /\ th_clock = 0
    /\ th_now = 0
    /\ th_last_activity = 0
    /\ th_child = "none"
    /\ th_sent = [s \in Streams |-> 0]
    /\ th_pending = [s \in Streams |-> 0]
    /\ th_stamp = [s \in Streams |-> -1]
    /\ th_reader = [s \in Streams |-> "finished"]
    /\ th_stderr_chunks = 0
    /\ th_cache = FALSE
    /\ th_msg = -1

\* After Popen, last_activity = [time.time()], stderr_chunks = [], the start
\* of both threads and start = time.time(): the first `while` test is next.
ThreadsInit ==
    /\ th_pc = "test"
    /\ th_clock = 0
    /\ th_now = 0
    /\ th_last_activity = 0
    /\ th_child = "running"
    /\ th_sent = [s \in Streams |-> 0]
    /\ th_pending = [s \in Streams |-> 0]
    /\ th_stamp = [s \in Streams |-> -1]
    /\ th_reader = [s \in Streams |-> "reading"]
    /\ th_stderr_chunks = 0
    /\ th_cache \in BOOLEAN
    /\ th_msg = -1

\* Time passes between two statements of any thread
ThTick ==
    /\ ThreadsOnly
    /\ th_clock < MaxTicks
    /\ th_clock' = th_clock + 1
    /\ UNCHANGED <<th_pc, th_now, th_last_activity, th_child, th_sent, th_pending,
                   th_stamp, th_reader, th_stderr_chunks, th_cache, th_msg>>

\* The child writes a line to one of its streams
ThChildWrites(s) ==
    /\ ThreadsOnly
    /\ th_child = "running"
    /\ th_sent[s] < MaxLines
    /\ th_sent' = [th_sent EXCEPT ![s] = @ + 1]
    /\ th_pending' = [th_pending EXCEPT ![s] = @ + 1]
    /\ UNCHANGED <<th_pc, th_clock, th_now, th_last_activity, th_child, th_stamp,
                   th_reader, th_stderr_chunks, th_cache, th_msg>>

\* The child exits by itself
ThChildExits ==
    /\ ThreadsOnly
    /\ th_child = "running"
    /\ th_child' = "exited"
    /\ UNCHANGED <<th_pc, th_clock, th_now, th_last_activity, th_sent, th_pending,
                   th_stamp, th_reader, th_stderr_chunks, th_cache, th_msg>>

\* read_stream: stream.readline() returns a line and time.time() is
\* evaluated, the right-hand side of `last_activity[0] = time.time()`
ThReadLine(s) ==
    /\ ThreadsOnly
    /\ th_reader[s] = "reading"
    /\ th_stamp[s] = -1
    /\ th_pending[s] > 0
    /\ th_pending' = [th_pending EXCEPT ![s] = @ - 1]
    /\ th_stamp' = [th_stamp EXCEPT ![s] = th_clock]
    /\ UNCHANGED <<th_pc, th_clock, th_now, th_last_activity, th_child, th_sent,
                   th_reader, th_stderr_chunks, th_cache, th_msg>>

\* last_activity[0] = <value>: the store replaces whatever is there
StoreActivity(stored, t) == t

\* read_stream: the store of `last_activity[0] = time.time()`, then
\* `if is_stderr: stderr_chunks.append(line)`
ThStore(s) ==
    /\ ThreadsOnly
    /\ th_stamp[s] >= 0
    /\ th_last_activity' = StoreActivity(th_last_activity, th_stamp[s])
    /\ th_stamp' = [th_stamp EXCEPT ![s] = -1]
    /\ th_stderr_chunks' = IF s = "stderr" THEN th_stderr_chunks + 1
                           ELSE th_stderr_chunks
    /\ UNCHANGED <<th_pc, th_clock, th_now, th_child, th_sent, th_pending, th_reader,
                   th_cache, th_msg>>

\* read_stream: readline() returns "" at the end of the stream, the loop
\* ends and `finally` closes the stream. The end is met only after the child
\* is gone and every line has been read.
ThReaderEnds(s) ==
    /\ ThreadsOnly
    /\ th_reader[s] = "reading"
    /\ th_stamp[s] = -1
    /\ th_pending[s] = 0
    /\ th_child = "exited"
    /\ th_reader' = [th_reader EXCEPT ![s] = "finished"]
    /\ UNCHANGED <<th_pc, th_clock, th_now, th_last_activity, th_child, th_sent,
                   th_pending, th_stamp, th_stderr_chunks, th_cache, th_msg>>

\* while proc.poll() is None
ThLoopTest ==
    /\ ThreadsOnly
    /\ th_pc = "test"
    /\ th_pc' = IF th_child = "running" THEN "sleep" ELSE "join"
    /\ UNCHANGED <<th_clock, th_now, th_last_activity, th_child, th_sent, th_pending,
                   th_stamp, th_reader, th_stderr_chunks, th_cache, th_msg>>

\* time.sleep(R_POLL_INTERVAL); now = time.time()
ThWake ==
    /\ ThreadsOnly
    /\ th_pc = "sleep"
    /\ th_clock < MaxTicks
    /\ th_clock' = th_clock + 1
    /\ th_now' = th_clock + 1
    /\ th_pc' = "stat"
    /\ UNCHANGED <<th_last_activity, th_child, th_sent, th_pending, th_stamp,
                   th_reader, th_stderr_chunks, th_cache, th_msg>>

\* if cache.exists(): st = cache.stat(); last_activity[0] = now
\* (the two ceilings that follow are not reached within the horizon)
ThStat ==
    /\ ThreadsOnly
    /\ th_pc = "stat"
    /\ th_last_activity' = IF th_cache THEN StoreActivity(th_last_activity, th_now)
                           ELSE th_last_activity
    /\ th_pc' = "test"
    /\ UNCHANGED <<th_clock, th_now, th_child, th_sent, th_pending, th_stamp,
                   th_reader, th_stderr_chunks, th_cache, th_msg>>

\* t_stdout.join(timeout=1.0); t_stderr.join(timeout=1.0): each join returns
\* when its thread is through or when its second is over, whichever is first
JoinReturns(reader) == TRUE

\* The two joins after the loop
ThJoin ==
    /\ ThreadsOnly
    /\ th_pc = "join"
    /\ JoinReturns(th_reader)
    /\ th_pc' = "status"
    /\ UNCHANGED <<th_clock, th_now, th_last_activity, th_child, th_sent, th_pending,
                   th_stamp, th_reader, th_stderr_chunks, th_cache, th_msg>>

\* if proc.returncode != 0: msg = _r_stderr_to_log_message(proc.returncode,
\* stderr_chunks), or one of the two other returns
ThStatus ==
    /\ ThreadsOnly
    /\ th_pc = "status"
    /\ th_msg' = th_stderr_chunks
    /\ th_pc' = "returned"
    /\ UNCHANGED <<th_clock, th_now, th_last_activity, th_child, th_sent, th_pending,
                   th_stamp, th_reader, th_stderr_chunks, th_cache>>

ThreadsNext ==
    \/ ThTick
    \/ \E s \in Streams : ThChildWrites(s)
    \/ ThChildExits
    \/ \E s \in Streams : ThReadLine(s)
    \/ \E s \in Streams : ThStore(s)
    \/ \E s \in Streams : ThReaderEnds(s)
    \/ ThLoopTest
    \/ ThWake
    \/ ThStat
    \/ ThJoin
    \/ ThStatus

(***************************************************************************)
(* Specifications                                                          *)
(***************************************************************************)
InitDL == DlInit /\ SupIdle /\ PipeIdle /\ RsIdle /\ SchedIdle /\ QueryIdle /\ ThreadsIdle

SpecDL == InitDL /\ [][DlNext]_vars

InitSup == SupInit /\ DlIdle /\ PipeIdle /\ RsIdle /\ SchedIdle /\ QueryIdle /\ ThreadsIdle

SpecSup == InitSup /\ [][SupNext]_vars

InitPipe == PipeInit /\ DlIdle /\ SupIdle /\ RsIdle /\ SchedIdle /\ QueryIdle /\ ThreadsIdle

SpecPipe == InitPipe /\ [][PipeNext]_vars

InitSingle == RsInit /\ DlIdle /\ SupIdle /\ PipeIdle /\ SchedIdle /\ QueryIdle /\ ThreadsIdle

SpecSingle == InitSingle /\ [][RsNext]_vars

Init == SchedInit /\ DlIdle /\ SupIdle /\ PipeIdle /\ RsIdle /\ QueryIdle /\ ThreadsIdle

Spec == Init /\ [][Next]_vars

InitQuery == QueryInit /\ DlIdle /\ SupIdle /\ PipeIdle /\ RsIdle /\ SchedIdle /\ ThreadsIdle

SpecQuery == InitQuery /\ [][QueryNext]_vars

InitThreads == ThreadsInit /\ DlIdle /\ SupIdle /\ PipeIdle /\ RsIdle /\ SchedIdle /\ QueryIdle

SpecThreads == InitThreads /\ [][ThreadsNext]_vars

\* run_ingestion is one sequential call: it keeps taking steps until it returns
SpecLive == Init /\ [][Next]_vars /\ WF_vars(Next)



(***************************************************************************)
(* Claims about Source Acquisition (checked under SpecDL)                  *)
(***************************************************************************)
\* The primary attempt that met `ev` ended with a message the retry loop
\* treats as not-found ("inexistente", "550" or "404" in the text).
PrimaryNotFound(ev) ==
    /\ ev.k # "ok"
    /\ \/ ev.k = "not_listed"
       \/ ev.marks \cap {"550", "404"} # {}

\* C4: once a primary (FTP) attempt is classified not-found, no further
\* primary attempt is made, no backoff sleep happens after it, and the
\* secondary mirror is tried at most once.
C4_NotFoundEndsPrimary ==
    /\ \A k \in 1..Len(dl_ftp) :
          PrimaryNotFound(dl_ftp[k]) =>
              /\ k = Len(dl_ftp)
              /\ \A n \in 1..Len(dl_sleeps) : dl_sleeps[n][1] <= k
              /\ dl_pc \in {"s3", "done"}
    /\ Len(dl_s3) <= 1

\* A call in which the second primary attempt was classified not-found and
\* the mirror was then tried.
C4_Witness ==
    /\ dl_pc = "done"
    /\ Len(dl_ftp) = 2
    /\ PrimaryNotFound(dl_ftp[2])
    /\ Len(dl_sleeps) = 1
    /\ Len(dl_s3) = 1

PrimaryExhausted ==
    /\ Len(dl_ftp) = MAX_ATTEMPTS
    /\ \A k \in 1..Len(dl_ftp) : dl_ftp[k].k # "ok" /\ ~PrimaryNotFound(dl_ftp[k])

\* C5: after the primary exhausts its attempts for a reason other than
\* not-found (for instance three timeouts), the secondary mirror is tried
\* exactly once, the call succeeds exactly when that attempt succeeds, and a
\* successful call leaves a non-empty file at the path.
C5_MirrorDecides ==
    /\ (dl_pc = "done" /\ PrimaryExhausted) =>
          /\ Len(dl_s3) = 1
          /\ dl_res.ok <=> (dl_s3[1].k = "ok")
    /\ (dl_pc = "done" /\ dl_res.ok) => dl_path = "data"
    /\ (dl_pc = "s3") => dl_s3 = <<>>

\* Three primary timeouts followed by a successful mirror download.
C5_Witness ==
    /\ dl_pc = "done"
    /\ Len(dl_ftp) = MAX_ATTEMPTS
    /\ \A k \in 1..Len(dl_ftp) : dl_ftp[k].k = "timeout"
    /\ Len(dl_s3) = 1
    /\ dl_s3[1].k = "ok"
    /\ dl_res.ok
    /\ dl_path = "data"


\* C12: after _download_dbc has returned failure the download path holds
\* nothing (no partial transfer, no zero-byte file); it is populated only
\* when the call returned success.
C12_FailureLeavesNothing ==
    dl_pc = "done" =>
        IF dl_res.ok THEN dl_path = "data" ELSE dl_path = "absent"

SupReturned == sup_pc \in {"done", "failed"}

\* C6: a child that writes no line and whose cache does not grow for longer
\* than R_NO_PROGRESS_TIMEOUT is killed at the next poll and the call fails
\* with the stalled message, whether the cache file is absent or present
\* with a constant size: no poll lets such a child run on, and a kill that
\* ends such a quiet period is reported as stalled.
C6_StalledChildKilled ==
    /\ ~(sup_pc = "loop" /\ sup_child = "running" /\ sup_idle > R_NO_PROGRESS_TIMEOUT)
    /\ (sup_pc = "done" /\ sup_child = "killed" /\ sup_idle > R_NO_PROGRESS_TIMEOUT)
          => sup_res.err = M_STALLED

\* C7: a poll taken more than R_HARD_TIMEOUT after launch never lets the
\* call go on: the call has returned failure by R_HARD_TIMEOUT plus one poll
\* interval, the child is no longer running, and the failure is the
\* exceeded-maximum-duration one when last_activity is within the
\* no-progress window. (The kill is that of a poll that gets to its ceiling
\* tests; what a poll cut short by an exception leaves behind is C25's.)
C7_HardCeiling ==
    /\ sup_pc \in {"loop", "sleep"} => sup_clock <= R_HARD_TIMEOUT
    /\ SupReturned => sup_clock <= R_HARD_TIMEOUT + R_POLL_INTERVAL
    /\ (SupReturned /\ sup_clock > R_HARD_TIMEOUT) =>
          /\ ~sup_res.ok
          /\ sup_pc = "done" =>
                /\ sup_child # "running"
                /\ (sup_clock - sup_last <= R_NO_PROGRESS_TIMEOUT) => sup_res.err = M_HARD

\* A child that kept writing lines, never had a cache file, and was killed at
\* the first poll after the hard ceiling.
C7_Witness ==
    /\ sup_pc = "done"
    /\ sup_clock = R_HARD_TIMEOUT + R_POLL_INTERVAL
    /\ sup_child = "killed"
    /\ sup_cache = -1
    /\ sup_res = [ok |-> FALSE, err |-> M_HARD]


\* C11: _run_r_download_only returns success only when the child exited by
\* itself with code 0 and the Raw Cache Artifact exists; a failed launch, a
\* kill by either ceiling, a non-zero code or a missing cache gives failure.
C11_SuccessNeedsCleanExitAndCache ==
    SupReturned =>
        /\ sup_res.ok => (sup_child = "exited" /\ sup_rc = 0 /\ sup_cache >= 0)
        /\ sup_child \in {"none", "killed"} => ~sup_res.ok
        /\ (sup_child = "exited" /\ sup_rc # 0) => ~sup_res.ok
        /\ sup_cache < 0 => ~sup_res.ok

\* the child ran for a while, wrote the cache, exited with 0: success
C11_Witness ==
    /\ sup_pc = "done" /\ sup_res.ok
    /\ sup_child = "exited" /\ sup_rc = 0
    /\ sup_wrote /\ sup_clock > 0

\* C15: a Raw Cache Artifact left by an earlier attempt never makes
\* _run_r_download_only declare success: success means that this
\* invocation's child produced the cache.
C15_StaleCacheNotReused ==
    (SupReturned /\ sup_res.ok) => sup_wrote

(***************************************************************************)
(* Claims about the Pipeline (checked under SpecPipe)                      *)
(***************************************************************************)
\* The raw records read so far that the system's filter keeps, in input order
Survivors == FilterFn(pipe_system, pipe_input, pipe_fields)

IsPrefix(a, b) == Len(a) <= Len(b) /\ a = SubSeq(b, 1, Len(a))

\* C8: for any sequence of raw records and any batch size, _process_dbc_python
\* writes to the Destination Artifact exactly the records the system's filter
\* keeps, each once and in input order, and n_written is their number: what
\* has been written is always a prefix of the enriched survivors, a call that
\* read the whole source has written all of them, and it succeeds exactly
\* when there is at least one.
C8_WritesExactlyMatches ==
    pipe_entry = "dbc" =>
        /\ IsPrefix(pipe_dest.rows, MetaFn(pipe_system, Survivors, pipe_fields))
        /\ pipe_nwritten = Len(pipe_dest.rows)
        /\ pipe_pc = "done" =>
              /\ pipe_dest.rows = MetaFn(pipe_system, Survivors, pipe_fields)
              /\ pipe_nwritten = Len(Survivors)
              /\ pipe_res.ok <=> Survivors # <<>>
              /\ pipe_res.ok => pipe_dest.exists

\* Three records read in batches of two, the first and the last matching:
\* two rows written, by two different batches.
C8_Witness ==
    /\ pipe_entry = "dbc"
    /\ pipe_pc = "done"
    /\ pipe_size = 2
    /\ Len(pipe_input) = 3
    /\ FilterRow(pipe_system, pipe_input[1], pipe_fields)
    /\ ~FilterRow(pipe_system, pipe_input[2], pipe_fields)
    /\ FilterRow(pipe_system, pipe_input[3], pipe_fields)
    /\ Len(pipe_dest.rows) = 2
    /\ pipe_res.ok

\* C9: when no record survives the filter in any batch, neither pipeline
\* entry point ever opens the output writer or creates the Destination
\* Artifact, and a call that read the whole source returns failure with its
\* no-record-matched-filter message.
C9_NoMatchNoOutput ==
    Survivors = <<>> =>
        /\ pipe_writer = "none"
        /\ pipe_opens = 0
        /\ pipe_dest = Absent
        /\ pipe_pc = "done" =>
              pipe_res = [ok |-> FALSE,
                          err |-> IF pipe_entry = "dbc" THEN M_NO_MATCH
                                  ELSE M_NO_MATCH_CACHE]

\* A cache of three records in several batches, none of which matches.
C9_Witness ==
    /\ pipe_entry = "cache"
    /\ pipe_pc = "done"
    /\ Len(pipe_input) = 3
    /\ Survivors = <<>>
    /\ "pa_proc_id" \in pipe_fields
    /\ pipe_res = [ok |-> FALSE, err |-> M_NO_MATCH_CACHE]


\* C14: when _process_r_download_cache_python returns, whether with success,
\* no-match or a caught exception, the Raw Cache Artifact it was given no
\* longer exists.
C14_CacheDeletedOnReturn ==
    (pipe_entry = "cache" /\ pipe_pc \in {"done", "failed"}) => ~pipe_cache

(***************************************************************************)
(* Claims about _run_single (checked under SpecSingle)                     *)
(***************************************************************************)
\* C10: _run_single launches the external helper only when the acquisition
\* failed with the not-found class; a failure of class timeout, empty-result,
\* resource-exhaustion, no-match or other never launches it.
C10_FallbackOnlyOnNotFound ==
    rs_launched => rs_acq.cause = "not-found"

(***************************************************************************)
(* Claims about the Resolver and the Scheduler (checked under Spec)        *)
(***************************************************************************)
Last(h) == h[Len(h)]

Front(h) == SubSeq(h, 1, Len(h) - 1)

\* the targets the run counted as succeeded
Succeeded == {sch_hist[k].tgt : k \in {j \in 1..Len(sch_hist) : sch_hist[j].kind = "ok"}}

Range(q) == {q[k] : k \in 1..Len(q)}

\* C1: when a run has ended, every target it counted as succeeded has its
\* Destination Artifact in the store, and get_targets, whatever its flags,
\* returns a list that contains none of them.
C1_SucceededNotResolvedAgain ==
    sch_pc = "finished" =>
        /\ sch_ok = Cardinality({k \in 1..Len(sch_hist) : sch_hist[k].kind = "ok"})
        /\ \A t \in Succeeded :
             /\ DestPath(t) \in raw_store
             /\ \A fl \in BOOLEAN, im \in BOOLEAN, day \in Todays :
                  t \notin Range(GetTargets(fl, im, raw_store, log_lines, day))

\* a finished run that succeeded on a target the log names as a retry target
C1_Witness ==
    /\ sch_pc = "finished"
    /\ Succeeded \cap TargetsFromLog(log_lines) # {}
    /\ sch_fail > 0

\* Number of timeout-classified failures in a row at the end of the history,
\* counted since the breaker's counter was last reset; skips are not attempts.
RECURSIVE TrailingTimeouts(_)
TrailingTimeouts(h) ==
    IF h = <<>> THEN 0
    ELSE CASE Last(h).kind = "skip" -> TrailingTimeouts(Front(h))
           [] Last(h).kind = "fail" /\ Last(h).timeout -> 1 + TrailingTimeouts(Front(h))
           [] OTHER -> 0

\* C2: when three attempts in a row have ended in timeout-classified failures
\* and a target remains, the next step of the run is one sleep of
\* CIRCUIT_BREAKER_COOLDOWN seconds that leaves consecutive_timeouts at 0 and
\* the position unchanged; the step after a sleep is never another sleep.
C2_BreakerSleepsOnce ==
    [][/\ (/\ sch_pc = "loop" /\ sch_i <= Len(sch_targets)
           /\ TrailingTimeouts(sch_hist) >= CIRCUIT_BREAKER_THRESHOLD)
          => /\ sch_hist' = Append(sch_hist, Entry("cooldown", NoTarget, FALSE,
                                                    CIRCUIT_BREAKER_COOLDOWN))
             /\ consecutive_timeouts' = 0
             /\ sch_i' = sch_i
       /\ (sch_hist # <<>> /\ Last(sch_hist).kind = "cooldown" /\ sch_hist' # sch_hist)
          => Last(sch_hist').kind # "cooldown"]_vars

\* the breaker has just slept after three timeouts and a target remains
C2_Witness ==
    /\ sch_pc = "loop" /\ sch_i <= Len(sch_targets)
    /\ sch_hist # <<>> /\ Last(sch_hist).kind = "cooldown"
    /\ Last(sch_hist).secs = CIRCUIT_BREAKER_COOLDOWN
    /\ TrailingTimeouts(Front(sch_hist)) = CIRCUIT_BREAKER_THRESHOLD
    /\ consecutive_timeouts = 0

FailureKinds == PatternKinds \cup {"ERRO ingestao"}

\* failure entries the log holds about exactly this target
LoggedFailures(lines, t) ==
    Cardinality({k \in 1..Len(lines) :
                    lines[k].kind \in FailureKinds /\ lines[k].tgt = t})

\* C3: when the scheduler deals with a target for which the log holds at
\* least MAX_FAILURES_BEFORE_SKIP failure entries, the step marks it skipped
\* and makes no attempt (store, ok and fail unchanged, only the skip line is
\* logged); no target is dealt with twice in a run.
C3_LoggedFailuresSkip ==
    /\ [](\A j, k \in 1..Len(sch_hist) :
            (j # k /\ sch_hist[j].kind # "cooldown") => sch_hist[j].tgt # sch_hist[k].tgt)
    /\ [][(/\ sch_pc = "loop" /\ sch_i <= Len(sch_targets)
           /\ sch_i' = sch_i + 1
           /\ LoggedFailures(log_lines, sch_targets[sch_i]) >= MAX_FAILURES_BEFORE_SKIP)
          => /\ sch_hist' = Append(sch_hist, Entry("skip", sch_targets[sch_i], FALSE, 0))
             /\ sch_skipped' = sch_skipped + 1
             /\ log_lines' = Append(log_lines, Line("IGNORADO", sch_targets[sch_i]))
             /\ UNCHANGED <<raw_store, sch_ok, sch_fail>>]_vars

\* a target with three logged failures of its own has just been skipped
C3_Witness ==
    /\ sch_hist # <<>> /\ Last(sch_hist).kind = "skip"
    /\ LoggedFailures(log_lines, Last(sch_hist).tgt) >= MAX_FAILURES_BEFORE_SKIP
    /\ sch_skipped = 1

\* the targets whose attempt failed in this run
Failed == {sch_hist[k].tgt : k \in {j \in 1..Len(sch_hist) : sch_hist[j].kind = "fail"}}

\* C16: every target whose attempt failed in a run, and whose Destination
\* Artifact is absent, is returned by get_targets(from_log=True,
\* include_missing=False) afterwards.
C16_FailuresAreRetryTargets ==
    sch_pc = "finished" =>
        \A t \in Failed :
            DestPath(t) \notin raw_store =>
                t \in Range(GetTargets(TRUE, FALSE, raw_store, log_lines, sch_today))

IsOutcomeLine(l) == l.kind \in {"SUCESSO ingestao", "ERRO ingestao", "IGNORADO"}

IsOutcomeEntry(h) == h.kind \in {"ok", "fail", "skip"}

\* the lines this run has appended
RunLines == SubSeq(log_lines, Len(sch_log0) + 1, Len(log_lines))

\* the outcome line a history entry stands for
LineOf(h) ==
    Line(CASE h.kind = "ok" -> "SUCESSO ingestao"
           [] h.kind = "fail" -> "ERRO ingestao"
           [] OTHER -> "IGNORADO", h.tgt)

HistLines == LET q == SelectSeq(sch_hist, IsOutcomeEntry)
             IN  [k \in 1..Len(q) |-> LineOf(q[k])]

\* C17: the outcome lines a run appends are, in order, one line per target
\* dealt with so far, each written in the step that settles the outcome; at
\* the end they name the resolved targets one by one; the log only grows.
C17_OneOutcomeLinePerTarget ==
    /\ [](/\ IsPrefix(sch_log0, log_lines)
          /\ SelectSeq(RunLines, IsOutcomeLine) = HistLines
          /\ sch_pc = "finished" =>
                [k \in 1..Len(HistLines) |-> HistLines[k].tgt] = sch_targets)
    /\ [][IsPrefix(log_lines, log_lines')]_vars

\* a finished run with a success, a failure after a fallback, and a skip
C17_Witness ==
    /\ sch_pc = "finished"
    /\ sch_ok > 0 /\ sch_fail > 0 /\ sch_skipped > 0
    /\ \E k \in 1..Len(RunLines) : RunLines[k].kind = "fallback"
    /\ sch_log0 # <<>>

\* C18: the run terminates, and when it has ended every resolved target was
\* dealt with, in order, and ok + fail + skipped is the number of targets.
C18_RunReachesEveryTarget ==
    /\ <>(sch_pc = "finished")
    /\ [](sch_pc = "finished" =>
            /\ [k \in 1..Len(HistLines) |-> HistLines[k].tgt] = sch_targets
            /\ sch_ok + sch_fail + sch_skipped = Len(sch_targets))

\* a run ended after a failed connection test and a failure on every target
C18_Witness ==
    /\ sch_pc = "finished"
    /\ Len(sch_targets) >= 3 /\ sch_fail = Len(sch_targets)
    /\ \E k \in 1..Len(RunLines) : RunLines[k].kind = "CONEXAO FALHA"
    /\ \E k \in 1..Len(sch_hist) : sch_hist[k].kind = "cooldown"

\* C19: the call of get_targets changes neither the destination store (files
\* and directories) nor the log.
C19_GetTargetsReadOnly ==
    [][sch_pc = "start" => UNCHANGED <<raw_store, raw_dirs, log_lines>>]_vars

\* (region, year, month, system) of a target, strings by their rank
SortKey(t) == <<Rank(UfOrder, t[2]), t[3], t[4], Rank(SystemOrder, t[1])>>

LexLess(x, y) ==
    \E i \in 1..4 : x[i] < y[i] /\ \A j \in 1..(i - 1) : x[j] = y[j]

\* C20: the resolved list is strictly ascending by (region, year, month,
\* system), hence without repetition; no two candidates have the same key,
\* so the order does not depend on the set's iteration order.
C20_SortedNoDuplicates ==
    sch_pc \in {"resolved", "loop", "finished"} =>
        /\ \A j, k \in 1..Len(sch_targets) :
             j < k => LexLess(SortKey(sch_targets[j]), SortKey(sch_targets[k]))
        /\ \A a, b \in Targets : a # b => SortKey(a) # SortKey(b)

\* a resolved list that mixes grid targets with a log target of the same
\* month spelled differently
C20_Witness ==
    /\ sch_pc = "resolved"
    /\ Len(sch_targets) = 3
    /\ sch_targets[2] = AliasTarget

\* The Coverage Grid at a date: the grid's targets up to that month
CoverageGrid(day) ==
    {g \in Grid : g[3] < day[1] \/ (g[3] = day[1] /\ g[4] <= day[2])}

\* C21: get_targets decides completion from the Destination Artifact alone.
\* Whatever the flags and the date, over the store and the log of any state:
\* no returned target has its artifact in the store (failure lines and
\* from_log notwithstanding), and with include_missing every target of the
\* Coverage Grid whose artifact is absent is returned, success lines in the
\* log notwithstanding.
C21_ArtifactAloneDecides ==
    \A fl \in BOOLEAN, im \in BOOLEAN, day \in Todays :
        LET out == Range(GetTargets(fl, im, raw_store, log_lines, day))
        IN  /\ \A t \in out : DestPath(t) \notin raw_store
            /\ im => \A g \in CoverageGrid(day) : DestPath(g) \notin raw_store => g \in out

\* the resolved list holds a target that the log reports as ingested and
\* whose artifact is absent
C21_Witness ==
    /\ sch_pc = "resolved"
    /\ sch_include_missing /\ sch_from_log
    /\ \E k \in 1..Len(log_lines) :
          /\ log_lines[k].kind = "SUCESSO ingestao"
          /\ log_lines[k].tgt \in Range(sch_targets)
          /\ DestPath(log_lines[k].tgt) \notin raw_store

\* C22: _count_failures_in_log counts exactly the failure entries about the
\* given target, and the scheduler skips a target only when the log, as it is
\* just before the attempt, holds at least MAX_FAILURES_BEFORE_SKIP failure
\* entries about that very target.
C22_SkipCountsOwnFailuresOnly ==
    /\ [](\A t \in Targets : CountFailuresInLog(log_lines, t) = LoggedFailures(log_lines, t))
    /\ [][(/\ sch_pc = "loop" /\ sch_i <= Len(sch_targets)
           /\ sch_skipped' = sch_skipped + 1)
          => LoggedFailures(log_lines, sch_targets[sch_i]) >= MAX_FAILURES_BEFORE_SKIP]_vars

\* C23: an attempt leaves consecutive_timeouts at 0 when it succeeded or
\* failed with a class other than timeout, and at its previous value plus 1
\* when it failed with the class timeout.
C23_CounterFollowsClass ==
    [][(sch_ok' = sch_ok + 1 \/ sch_fail' = sch_fail + 1)
       => consecutive_timeouts' =
            IF sch_fail' = sch_fail + 1 /\ sch_cause' = "timeout"
            THEN consecutive_timeouts + 1
            ELSE 0]_vars

\* C24: last_activity changes only when a reader thread reads a line (it
\* takes the time of the read) or at a poll that finds the cache file with a
\* size above zero; a poll that finds no cache or an empty cache leaves it.
C24_ActivityOnlyOnLineOrGrownCache ==
    [][sup_last' # sup_last
       => IF sup_clock' = sup_clock
          THEN sup_pc \in {"loop", "sleep"} /\ sup_last' = sup_clock
          ELSE sup_pc = "sleep" /\ sup_cache > 0]_vars

\* the child has been waited for: proc.poll() returned its code at the loop
\* test, or proc.wait() returned after proc.kill()
ChildWaited == sup_pc = "done" /\ sup_child \in {"exited", "killed"}

\* C25: whenever _run_r_download_only returns after having launched the
\* child (own exit, no-progress kill, hard-ceiling kill, exception inside the
\* loop), the child has terminated and been waited for, and both of its
\* output streams are closed.
C25_TeardownOnEveryReturn ==
    (SupReturned /\ sup_child # "none") =>
        /\ sup_child \in {"exited", "killed"}
        /\ ChildWaited
        /\ sup_streams = "closed"

(***************************************************************************)
(* Claims about query (checked under SpecQuery)                            *)
(***************************************************************************)
\* the sql argument is a string that is empty or holds only whitespace
BlankSql == q_sql.isstr /\ \A k \in 1..Len(q_sql.chars) : q_sql.chars[k] \in Whitespace

\* C26: a call of query whose sql is empty or only whitespace gets no further
\* than the validation of sql: it ends with ValueError, and neither the file
\* system has been consulted nor any statement handed to DuckDB.
C26_BlankSqlRejectedFirst ==
    BlankSql =>
        /\ q_pc \in {"idle", "start", "raised"}
        /\ q_pc = "raised" => q_exc = "ValueError"
        /\ q_stats = 0
        /\ q_execs = <<>>

\* query("  ", data_root=<existing directory>) has raised ValueError
C26_Witness ==
    /\ q_pc = "raised" /\ q_exc = "ValueError"
    /\ q_sql = Str(<<" ", " ">>)
    /\ q_data_root = "dir"
    /\ q_view_name = Str(<<"a">>)

\* the sql argument is a string with something other than whitespace in it
NonBlankSql == q_sql.isstr /\ \E k \in 1..Len(q_sql.chars) : q_sql.chars[k] \notin Whitespace

\* the view_name argument is an SQL identifier
IdentifierName ==
    /\ q_view_name.isstr
    /\ q_view_name.chars # <<>>
    /\ q_view_name.chars[1] = "a"
    /\ \A k \in 1..Len(q_view_name.chars) : q_view_name.chars[k] \in {"a", "1"}

\* the root the call is to read is not an existing directory
RootNotADirectory ==
    \/ q_data_root \in {"missing", "file"}
    \/ q_data_root = "None" /\ q_default = "absent"

\* C27: with a non-blank sql and a valid view name, a call of query whose
\* data root is not an existing directory ends with FileNotFoundError at the
\* directory test, and no statement is ever handed to DuckDB.
C27_MissingRootRaises ==
    (q_pc # "idle" /\ NonBlankSql /\ IdentifierName /\ RootNotADirectory) =>
        /\ q_pc \in {"start", "sql_ok", "view_ok", "raised"}
        /\ q_pc = "raised" => q_exc = "FileNotFoundError"
        /\ q_execs = <<>>

\* query("S", data_root=<a path that does not exist>) has raised
\* FileNotFoundError
C27_Witness ==
    /\ q_pc = "raised" /\ q_exc = "FileNotFoundError"
    /\ q_sql = Str(<<"S">>)
    /\ q_view_name = Str(<<"a">>)
    /\ q_data_root = "missing"
    /\ q_execs = <<>>

(***************************************************************************)
(* Further claims about Source Acquisition (checked under SpecDL)          *)
(***************************************************************************)
\* C28: one call of _download_dbc makes at most MAX_ATTEMPTS primary attempts
\* and at most one secondary attempt; the i-th sleep is the one before primary
\* attempt i + 1, so there is none before the first primary attempt nor
\* before the secondary one; the sleep before attempt k lasts between 2^k and
\* 2^k + 1 seconds and at most 60 seconds (delays are in tenths of a second).
C28_AttemptsAndBackoff ==
    /\ Len(dl_ftp) <= MAX_ATTEMPTS
    /\ Len(dl_s3) <= 1
    /\ Len(dl_sleeps) = (IF dl_ftp = <<>> THEN 0 ELSE Len(dl_ftp) - 1)
    /\ \A i \in 1..Len(dl_sleeps) :
          LET k == dl_sleeps[i][1]
              d == dl_sleeps[i][2]
          IN  /\ k = i + 1
              /\ k \in 2..MAX_ATTEMPTS
              /\ (2 ^ k) * 10 <= d
              /\ d <= (2 ^ k) * 10 + 10
              /\ d <= 600

\* three primary attempts with two sleeps, then the secondary attempt
C28_Witness ==
    /\ dl_pc = "done"
    /\ Len(dl_ftp) = MAX_ATTEMPTS
    /\ Len(dl_s3) = 1
    /\ Len(dl_sleeps) = MAX_ATTEMPTS - 1
    /\ dl_sleeps[1][2] = 45
    /\ dl_sleeps[2][2] = 90

(***************************************************************************)
(* Further claims about the Pipeline (checked under SpecPipe)              *)
(***************************************************************************)
\* The raw records of the batches processed so far (the DBF reader's pending
\* chunk is not yet a batch)
Processed == SubSeq(pipe_input, 1, Len(pipe_input) - Len(pipe_chunk))

\* Rows of the processed batches that the system's filter keeps
ProcessedSurvivors == FilterFn(pipe_system, Processed, pipe_fields)

\* C29: in both entry points the writer is opened at most once per target,
\* and exactly when the first batch with a surviving row is processed, which
\* also fixes the schema; a batch with no surviving row opens nothing and
\* writes nothing; a later batch with surviving rows is appended through the
\* writer and schema already there.
C29_WriterOpenedOnceAtFirstRows ==
    /\ [](/\ pipe_opens <= 1
          /\ (pipe_opens = 1) <=> (ProcessedSurvivors # <<>>)
          /\ (pipe_opens = 1) <=> (pipe_schema = "set")
          /\ pipe_opens = 0 => (pipe_writer = "none" /\ pipe_dest = Absent /\ pipe_nwritten = 0))
    /\ [][(pipe_pc = "read" /\ Processed' # Processed) =>
            IF ProcessedSurvivors' = ProcessedSurvivors
            THEN UNCHANGED <<pipe_schema, pipe_opens, pipe_dest, pipe_nwritten>>
                 /\ (pipe_pc' = "read" => UNCHANGED pipe_writer)
            ELSE /\ pipe_opens' = 1
                 /\ pipe_schema' = "set"
                 /\ pipe_opens = 1 =>
                      /\ pipe_writer = "open"
                      /\ IsPrefix(pipe_dest.rows, pipe_dest'.rows)
                      /\ Len(pipe_dest'.rows) > Len(pipe_dest.rows)]_vars

\* Three batches of one record: the first has no surviving row, the second
\* opened the writer, the third was appended through it.
C29_Witness ==
    /\ pipe_size = 1
    /\ Len(Processed) = 3
    /\ FilterFn(pipe_system, SubSeq(pipe_input, 1, 1), pipe_fields) = <<>>
    /\ Len(ProcessedSurvivors) = 2
    /\ pipe_opens = 1
    /\ Len(pipe_dest.rows) = 2

\* C30: when either entry point has returned or raised, no writer is left
\* open, and a writer that was opened has been closed: on success, on
\* no-match, and after an error met while a batch was read, filtered or
\* written.
C30_WriterReleased ==
    pipe_pc \in {"done", "failed", "raised"} =>
        /\ pipe_writer # "open"
        /\ pipe_opens > 0 => pipe_writer = "closed"

\* an error met after rows had been written: the writer is closed
C30_Witness ==
    /\ pipe_pc \in {"failed", "raised"}
    /\ pipe_opens = 1
    /\ pipe_nwritten > 0
    /\ pipe_writer = "closed"

\* C31: in _process_dbc_python the buffer never holds more than CHUNK_SIZE
\* records, and the batches handed to the filter followed by the buffer are
\* at all times exactly the records read, in order: no record is dropped or
\* handed over twice, and after the last record the buffer has been flushed.
C31_ChunksCoverSourceOnce ==
    pipe_entry = "dbc" =>
        /\ Len(pipe_chunk) <= pipe_size
        /\ pipe_pc = "read" => Len(pipe_chunk) < pipe_size
        /\ pipe_fed \o pipe_chunk = pipe_input
        /\ pipe_pc = "done" => (pipe_fed = pipe_input /\ pipe_chunk = <<>>)

\* three records read in batches of two: a full batch and the flushed rest
C31_Witness ==
    /\ pipe_entry = "dbc"
    /\ pipe_pc = "done"
    /\ pipe_size = 2
    /\ Len(pipe_input) = 3
    /\ pipe_fed = pipe_input

\* What a pipeline call that read the whole source reports: success, the
\* no-record-matched-filter failure of its entry point, or another failure
Verdict(res) ==
    IF res.ok THEN "ok"
    ELSE IF res.err \in {M_NO_MATCH, M_NO_MATCH_CACHE} THEN "no_match"
    ELSE "other"

\* C32: for the same target and the same sequence of raw records the two
\* entry points agree.  Whichever entry point ran and however the records
\* were cut into batches, a call that read the whole source succeeds exactly
\* when a record survives the filter and otherwise reports no match, and the
\* rows of the Destination Artifact are the enriched survivors in input
\* order: verdict and rows are a function of the target and the records alone.
C32_EntryPointsAgree ==
    pipe_pc = "done" =>
        /\ Verdict(pipe_res) = IF Survivors # <<>> THEN "ok" ELSE "no_match"
        /\ pipe_dest.rows = MetaFn(pipe_system, Survivors, pipe_fields)
        /\ pipe_dest.exists <=> Survivors # <<>>

\* the fallback pipeline over three records, the first and the last matching
C32_Witness ==
    /\ pipe_entry = "cache"
    /\ pipe_pc = "done"
    /\ Len(pipe_input) = 3
    /\ FilterRow(pipe_system, pipe_input[1], pipe_fields)
    /\ ~FilterRow(pipe_system, pipe_input[2], pipe_fields)
    /\ FilterRow(pipe_system, pipe_input[3], pipe_fields)
    /\ pipe_res.ok
    /\ Len(pipe_dest.rows) = 2

\* The rule of the System A filter as the specification words it: a field
\* that is absent matches nothing, the other field still decides
KeepsSih(r, fields) ==
    \/ "diag_princ" \in fields /\ CidMatch(r.cid)
    \/ "proc_rea" \in fields /\ r.proc = "0415010012"

\* C33: _filter_sih keeps a row if and only if its primary diagnosis matches
\* the allowlist or its procedure code starts with 0415, for every batch
\* shape, the batches without a primary-diagnosis or procedure field included.
C33_SihFilterRule ==
    pipe_system = "SIH-RD" =>
        \A i \in 1..Len(pipe_input) :
            FilterSihRow(pipe_input[i], pipe_fields)
                <=> KeepsSih(pipe_input[i], pipe_fields)

(***************************************************************************)
(* Claims about the threads of the supervisor (checked under SpecThreads)  *)
(***************************************************************************)
\* C34: on the normal-exit path of _run_r_download_only both reader threads
\* have finished before the exit status is examined and the failure message
\* is built, so the captured list holds every stderr line the child wrote
\* at that point.
C34_ReadersFinishedBeforeStatus ==
    /\ th_pc = "status" => \A s \in Streams : th_reader[s] = "finished"
    /\ th_pc = "returned" => th_msg = th_sent["stderr"]

\* C36: under every interleaving of the two readers and the polling loop
\* the shared last_activity value never decreases.
C36_LastActivityNeverDecreases ==
    [][th_last_activity' >= th_last_activity]_vars

(***************************************************************************)
(* Further claims about _run_single (checked under SpecSingle)             *)
(***************************************************************************)
\* C35: whenever _run_single returns failure for a target, no Destination
\* Artifact exists for that target afterwards; a pipeline that fails on a
\* later batch, after having written one or more, leaves no partial output.
C35_FailureLeavesNoArtifact ==
    (rs_pc = "done" /\ ~rs_res.ok) => rs_dest = "absent"

(***************************************************************************)
(* Further claims about run_ingestion and get_targets (checked under Spec) *)
(***************************************************************************)
\* C37: in every reachable state of run_ingestion consecutive_timeouts lies
\* between 0 and CIRCUIT_BREAKER_THRESHOLD; no target is attempted or
\* skipped while it is at the threshold (the cooldown comes first); and
\* skipping a target leaves consecutive_timeouts, ok and fail unchanged.
C37_BreakerCounterBounded ==
    /\ [](consecutive_timeouts \in 0..CIRCUIT_BREAKER_THRESHOLD)
    /\ [][(sch_pc = "loop" /\ sch_i' = sch_i + 1)
          => /\ consecutive_timeouts < CIRCUIT_BREAKER_THRESHOLD
             /\ Last(sch_hist').kind = "skip"
                  => UNCHANGED <<consecutive_timeouts, sch_ok, sch_fail>>]_vars

\* a run that skipped a target and met three timeouts in a row: the counter
\* is at the threshold
C37_Witness ==
    /\ sch_pc = "loop"
    /\ consecutive_timeouts = CIRCUIT_BREAKER_THRESHOLD
    /\ sch_skipped = 1
    /\ sch_fail = CIRCUIT_BREAKER_THRESHOLD
    /\ \E k \in 1..Len(sch_hist) : sch_hist[k].kind = "skip"

\* The two-letter region codes of the model
TwoLetterCodes == STATES \cup {OtherUfTarget[2]}

\* system, region and month of a well-formed Target
WellFormed(t) ==
    /\ t[1] \in SYSTEMS
    /\ t[2] \in TwoLetterCodes
    /\ t[4] \in 1..12

\* C39: every target returned by get_targets is well formed whatever the
\* Failure Log contains: its system is SIH-RD or SIA-PA as spelled in
\* SYSTEMS, its region is a two-letter code and its month lies in 1..12.
C39_TargetsWellFormed ==
    \A k \in 1..Len(sch_targets) : WellFormed(sch_targets[k])

\* The targets of the grid that the log, as a run finds it, counts at least
\* MAX_FAILURES_BEFORE_SKIP failures for, whose month has begun and whose
\* Destination Artifact is absent
GivenUp ==
    {t \in Grid : /\ CountFailuresInLog(log_lines, t) >= MAX_FAILURES_BEFORE_SKIP
                  /\ ~IsFuture(t, sch_today)
                  /\ DestPath(t) \notin raw_store}

\* C38: the failure count of a target never decreases (the log is only
\* appended to, and success and skipped lines do not lower it), so in a later
\* run that resolves its targets from the grid or from the log a target that
\* has reached MAX_FAILURES_BEFORE_SKIP logged failures without a
\* Destination Artifact is returned by get_targets, and when the loop gets
\* to it it is skipped, with no acquisition attempt.
C38_GivenUpStaysSkipped ==
    /\ [][\A t \in Targets :
             CountFailuresInLog(log_lines', t) >= CountFailuresInLog(log_lines, t)]_vars
    /\ []((sch_pc = "resolved" /\ (sch_from_log \/ sch_include_missing))
            => GivenUp \subseteq Range(sch_targets))
    /\ [][(/\ sch_pc = "loop" /\ sch_i <= Len(sch_targets)
           /\ sch_i' = sch_i + 1
           /\ CountFailuresInLog(log_lines, sch_targets[sch_i]) >= MAX_FAILURES_BEFORE_SKIP)
          => /\ sch_skipped' = sch_skipped + 1
             /\ UNCHANGED <<raw_store, sch_ok, sch_fail>>]_vars
====
